---- MODULE Spec2Model ----
(***************************************************************************)
(* Model of the reinforcement-learning notebooks: tabular SARSA and        *)
(* Q-learning (src/unnamed/part_000), DQN (src/03_DeepQLearning.ipynb),    *)
(* REINFORCE and one-step Actor-Critic (src/04_PolicyGradient.ipynb).      *)
(*                                                                         *)
(* Each agent is a state machine of its own; a specification per agent     *)
(* (SpecDQN, SpecAC, SpecTD, SpecPGE, SpecTrainers for any one of the      *)
(* trainers, LiveTrainers for the same with the episode loop kept going)   *)
(* or per group of pure functions (SpecTab, SpecSelect, SpecPG, SpecTrain, *)
(* SpecConfig) keeps the other agents' variables at their idle values.     *)
(*                                                                         *)
(* Numbers: Python floats are modelled as exact rationals [n, d] in lowest *)
(* terms (d > 0); rounding of IEEE doubles is not modelled.  Network       *)
(* parameters are opaque: a parameter set is an element of Weights, and a  *)
(* gradient step may produce any element of Weights.                       *)
(***************************************************************************)
EXTENDS Integers, Sequences, FiniteSets, TLC

VARIABLES
    \* ---- DQNAgent (src/03_DeepQLearning.ipynb) ----
    memory,                 \* self.memory, deque(maxlen)
    model,                  \* parameters of self.model (online network)
    target_model,           \* parameters of self.target_model
    target_update_counter,  \* self.target_update_counter
    dqn_rewards,            \* self.stats['rewards']
    dqn_pc,                 \* position in execute(): "episode", "step", "act", "finished"
    dqn_episode,            \* loop variable of execute()
    dqn_state,              \* local variable state of execute() / act()
    dqn_last,               \* what the last environment step did (action, epsilon, values, trained, synced)
    history,                \* every transition ever appended to memory, in order
    train_steps,            \* number of train() calls that applied a gradient update
    last_sync,              \* the online parameters at construction / at the last sync
    \* ---- epsilon-greedy selectors, applied to drawn inputs ----
    sel_q,                  \* q_values handed to the selector
    sel_eps,                \* epsilon handed to the selector
    sel_out,                \* the last selection made
    \* ---- SarsaAgent / QLearningAgent (src/unnamed/part_000), one step on drawn inputs ----
    tab_obs,                \* the observation returned by env.step / env.reset
    tab_discrete,           \* get_discrete_state(observation), or <<>> before the call
    tab_q_row,              \* self.q_table[new_state]
    tab_reward,             \* reward returned by env.step
    tab_done,               \* done returned by env.step
    tab_out,                \* new_action and the q_new of either agent, or none
    \* ---- PGAgent.calc_returns (src/04_PolicyGradient.ipynb) on drawn inputs ----
    pg_rewards,             \* the rewards list handed to calc_returns
    pg_gamma,               \* self.gamma
    pg_returns,             \* the array calc_returns gives back, or none
    \* ---- ACAgent (src/04_PolicyGradient.ipynb) ----
    ac_I,                   \* self.I
    ac_pc,                  \* position in execute(): "episode", "step", "finished"
    ac_episode,             \* loop variable of execute()
    ac_state,               \* local variable state of execute()
    ac_rewards,             \* self.stats['rewards']
    actor_model,            \* parameters of self.actor_model
    critic_model,           \* parameters of self.critic_model
    ac_last,                \* what the last pass of the loop did
    ac_k,                   \* non-terminal transitions of the current episode so far
    ac_steps,               \* environment steps taken by execute() so far
    \* ---- SarsaAgent / QLearningAgent (src/unnamed/part_000), execute() and act() ----
    td_agent,               \* the class of the agent: "sarsa" or "qlearning"
    td_env,                 \* the environment handed to the constructor
    td_alpha,               \* self.alpha
    td_gamma,               \* self.gamma
    q_table,                \* self.q_table
    td_pc,                  \* position in execute(): "episode", "step", "act", "finished"
    td_episode,             \* loop variable of execute()
    td_env_state,           \* the environment's current observation
    td_state,               \* local variable state of execute() (a discrete state)
    td_action,              \* local variable action of SarsaAgent.execute()
    td_rewards,             \* self.stats['rewards']
    td_last,                \* what the last pass of a loop did
    td_history,             \* reward and done of every training step so far, in order
    \* ---- DQNAgent.train (src/03_DeepQLearning.ipynb) on drawn inputs ----
    tr_memory,              \* self.memory
    tr_model,               \* parameters of self.model
    tr_target_model,        \* parameters of self.target_model
    tr_out,                 \* minibatch, predictions, targets and errors of the last call, or none
    \* ---- SarsaAgent / QLearningAgent construction on a drawn num_grids ----
    cfg_num_grids,          \* num_grids handed to the constructor
    cfg_agent,              \* what the constructor gave: none yet, an agent, or an error
    cfg_run,                \* what execute() met at its first table lookup, or "none"
    \* ---- PGAgent (src/04_PolicyGradient.ipynb), execute() ----
    pge_pc,                 \* position in execute(): "episode", "step", "finished"
    pge_episode,            \* loop variable of execute()
    pge_state,              \* local variable state of execute()
    pge_model,              \* parameters of self.model
    memory_states,          \* self.memory_states
    memory_actions,         \* self.memory_actions
    memory_rewards,         \* self.memory_rewards
    pge_rewards,            \* self.stats['rewards']
    pge_last,               \* what the last pass of the loop did
    pge_history,            \* state, action, reward and done of every training step so far
    ac_history,             \* ACAgent: reward and done of every training step so far, in order
    ac_updates              \* ACAgent: the networks updated so far, in order

dqnVars == <<memory, model, target_model, target_update_counter, dqn_rewards,
             dqn_pc, dqn_episode, dqn_state, dqn_last, history, train_steps, last_sync>>

selVars == <<sel_q, sel_eps, sel_out>>

tabVars == <<tab_obs, tab_discrete, tab_q_row, tab_reward, tab_done, tab_out>>

pgVars == <<pg_rewards, pg_gamma, pg_returns>>

acVars == <<ac_I, ac_pc, ac_episode, ac_state, ac_rewards, actor_model, critic_model,
            ac_last, ac_k, ac_steps, ac_history, ac_updates>>

tdVars == <<td_agent, td_env, td_alpha, td_gamma, q_table, td_pc, td_episode, td_env_state,
            td_state, td_action, td_rewards, td_last, td_history>>

trVars == <<tr_memory, tr_model, tr_target_model, tr_out>>

cfgVars == <<cfg_num_grids, cfg_agent, cfg_run>>

pgeVars == <<pge_pc, pge_episode, pge_state, pge_model, memory_states, memory_actions,
             memory_rewards, pge_rewards, pge_last, pge_history>>

vars == <<dqnVars, selVars, tabVars, pgVars, acVars, tdVars, trVars, cfgVars, pgeVars>>

\* what an agent's step leaves alone: the other agents
notDqnVars == <<selVars, tabVars, pgVars, acVars, tdVars, trVars, cfgVars, pgeVars>>
notSelVars == <<dqnVars, tabVars, pgVars, acVars, tdVars, trVars, cfgVars, pgeVars>>
notTabVars == <<dqnVars, selVars, pgVars, acVars, tdVars, trVars, cfgVars, pgeVars>>
notPgVars == <<dqnVars, selVars, tabVars, acVars, tdVars, trVars, cfgVars, pgeVars>>
notAcVars == <<dqnVars, selVars, tabVars, pgVars, tdVars, trVars, cfgVars, pgeVars>>
notTdVars == <<dqnVars, selVars, tabVars, pgVars, acVars, trVars, cfgVars, pgeVars>>
notTrVars == <<dqnVars, selVars, tabVars, pgVars, acVars, tdVars, cfgVars, pgeVars>>
notCfgVars == <<dqnVars, selVars, tabVars, pgVars, acVars, tdVars, trVars, pgeVars>>
notPgeVars == <<dqnVars, selVars, tabVars, pgVars, acVars, tdVars, trVars, cfgVars>>

(***************************************************************************)
(* Exact rational arithmetic standing for Python float arithmetic.         *)
(***************************************************************************)
Abs(x) == IF x < 0 THEN -x ELSE x

RECURSIVE GCD(_, _)
GCD(a, b) == IF b = 0 THEN a ELSE GCD(b, a % b)

\* the rational n/d (d # 0) in lowest terms with a positive denominator
Rat(n, d) ==
    LET g == GCD(Abs(n), Abs(d))
        s == IF d < 0 THEN -1 ELSE 1
    IN  [n |-> (s * n) \div g, d |-> (s * d) \div g]

RatAdd(a, b) == Rat(a.n * b.d + b.n * a.d, a.d * b.d)
RatSub(a, b) == Rat(a.n * b.d - b.n * a.d, a.d * b.d)
RatMul(a, b) == Rat(a.n * b.n, a.d * b.d)
RatDiv(a, b) == Rat(a.n * b.d, a.d * b.n)
RatLt(a, b) == a.n * b.d < b.n * a.d
RatOfInt(i) == [n |-> i, d |-> 1]
\* conversion of a float to an integer type: truncation toward zero
RatTrunc(a) == IF a.n >= 0 THEN a.n \div a.d ELSE -((-a.n) \div a.d)

RECURSIVE RatPow(_, _)
RatPow(a, k) == IF k = 0 THEN RatOfInt(1) ELSE RatMul(a, RatPow(a, k - 1))

\* np.max of a non-empty vector of values
np_max(q) == CHOOSE x \in {q[i] : i \in DOMAIN q} : \A i \in DOMAIN q : ~RatLt(x, q[i])

\* np.random.randint(lo, hi): an integer of [lo, hi)
randint(lo, hi) == lo .. (hi - 1)

\* np.random.random(): a float of [0.0, 1.0); 0.0 is a possible draw
RandomDraws == {Rat(0, 1), Rat(1, 2)}

(***************************************************************************)
(* DQNAgent                                                                *)
(***************************************************************************)
\* deque(maxlen=10000), scaled down
maxlen == 2
\* self.batch_size = 32, scaled down
batch_size == 2
\* self.target_update_frequency = 200, scaled down
target_update_frequency == 2
\* self.num_episodes = 1000, scaled down
dqn_num_episodes == 2
\* self.to_show = 200, scaled down
dqn_to_show == 2
\* cap on the number of environment steps of training explored
MaxSteps == 4

\* self.action_size = env.action_space.n (CartPole-v0: 2)
dqn_action_size == 2

\* self.epsilon = 0.1
dqn_epsilon == Rat(1, 10)

\* an evaluation rollout that always explores
act_epsilon_exploring == Rat(1, 1)

\* act(): the epsilon its selections are made with, epsilon=0 in
\* SarsaAgent.act and QLearningAgent.act, select_action(state, 0) in DQNAgent.act
act_epsilon == Rat(0, 1)

\* the distinct parameter sets a network can hold
Weights == {0, 1}
\* the distinct observations of the environment
EnvStates == {0, 1}
DQNActions == 0 .. (dqn_action_size - 1)

\* env.step(action): the environment is an external collaborator; the next
\* observation and the reward depend on (state, action), any done flag may come back
EnvStep(s, a) ==
    { [new_state |-> (s + a + 1) % 2, reward |-> (IF a = s THEN 1 ELSE 0), done |-> d] :
        d \in BOOLEAN }

\* self.model.predict(state): the values a network with parameters w gives the
\* actions in observation s; a fixed function of (w, s), ties included
Predict(w, s) == [i \in 1 .. dqn_action_size |-> RatOfInt(((w + 1) * ((i - 1) + s)) % 3)]

\* np.argmax(q_values): the first (0-based) index holding the maximum
Argmax(q) ==
    LET i == CHOOSE i \in DOMAIN q :
                 /\ \A j \in DOMAIN q : ~RatLt(q[i], q[j])
                 /\ \A j \in DOMAIN q : j < i => RatLt(q[j], q[i])
    IN  i - 1

\* a selection whose exploration draws from [0, action_size], upper bound included
select_action_inclusive(q_values, eps, u) ==
    IF RatLt(u, eps)
    THEN randint(0, dqn_action_size + 1)
    ELSE {Argmax(q_values)}

\* DQNAgent.select_action(state, epsilon), given q_values = model.predict(state)
\* and the random draw u: the set of actions it can return
select_action(q_values, eps, u) ==
    IF RatLt(u, eps)
    THEN randint(0, dqn_action_size)
    ELSE {Argmax(q_values)}

\* a deque that refuses the new entry when full
deque_append_keep_old(mem, x) ==
    IF Len(mem) = maxlen THEN mem ELSE Append(mem, x)

\* a list: append without a bound
deque_append_unbounded(mem, x) == Append(mem, x)

\* self.memory.append(x) on a deque with maxlen: the oldest entry leaves when full
deque_append(mem, x) ==
    IF Len(mem) = maxlen THEN Append(Tail(mem), x) ELSE Append(mem, x)

\* random.sample(mem, k): every list of k entries taken at distinct positions
random_sample(mem, k) ==
    { [i \in 1 .. k |-> mem[f[i]]] :
        f \in { g \in [1 .. k -> DOMAIN mem] : \A i, j \in 1 .. k : i # j => g[i] # g[j] } }

\* a train() that samples one transition too few
train_small_batch(mem, m, t) ==
    IF Len(mem) < batch_size
    THEN {[model |-> m, target_model |-> t, trained |-> FALSE, minibatch |-> <<>>]}
    ELSE {[model |-> w, target_model |-> t, trained |-> TRUE, minibatch |-> mb] :
             w \in Weights, mb \in random_sample(mem, batch_size - 1)}

\* a train() that samples among the transitions stored before this step
train_before_append(mem, m, t) ==
    IF Len(mem) - 1 < batch_size
    THEN {[model |-> m, target_model |-> t, trained |-> FALSE, minibatch |-> <<>>]}
    ELSE {[model |-> w, target_model |-> t, trained |-> TRUE, minibatch |-> mb] :
             w \in Weights, mb \in random_sample(SubSeq(mem, 1, Len(mem) - 1), batch_size)}

\* a train() whose gradient step is applied to both networks
train_both(mem, m, t) ==
    IF Len(mem) < batch_size
    THEN {[model |-> m, target_model |-> t, trained |-> FALSE]}
    ELSE {[model |-> w, target_model |-> w, trained |-> TRUE] : w \in Weights}

\* a train() that takes a gradient step whatever the memory holds
train_always(mem, m, t) ==
    {[model |-> w, target_model |-> t, trained |-> TRUE] : w \in Weights}

\* DQNAgent.train(): nothing below batch_size transitions; otherwise a minibatch
\* is sampled and one gradient step is taken on the online network.  The result
\* is the set of possible outcomes: the parameters and the minibatch used.
train(mem, m, t) ==
    IF Len(mem) < batch_size
    THEN {[model |-> m, target_model |-> t, trained |-> FALSE, minibatch |-> <<>>]}
    ELSE {[model |-> w, target_model |-> t, trained |-> TRUE, minibatch |-> mb] :
             w \in Weights, mb \in random_sample(mem, batch_size)}

\* a sync that copies the parameters and leaves the counter running
sync_no_reset(counter, m, t) ==
    LET c == counter + 1
    IN  IF c = target_update_frequency
        THEN [counter |-> c, target_model |-> m, synced |-> TRUE]
        ELSE [counter |-> c, target_model |-> t, synced |-> FALSE]

\* a sync that fires one step late (counter > frequency instead of ==)
sync_late(counter, m, t) ==
    LET c == counter + 1
    IN  IF c > target_update_frequency
        THEN [counter |-> 0, target_model |-> m, synced |-> TRUE]
        ELSE [counter |-> c, target_model |-> t, synced |-> FALSE]

\* lines 122-125 of execute(): count the step, hard-copy the online parameters
\* into the target network when the counter reaches target_update_frequency
sync(counter, m, t) ==
    LET c == counter + 1
    IN  IF c = target_update_frequency
        THEN [counter |-> 0, target_model |-> m, synced |-> TRUE]
        ELSE [counter |-> c, target_model |-> t, synced |-> FALSE]

NoStep == [kind |-> "none"]

DQNInit ==
    /\ memory = <<>>
    /\ model \in Weights
    /\ target_model = model          \* target_model.set_weights(model.get_weights())
    /\ target_update_counter = 0
    /\ dqn_rewards = <<>>
    /\ dqn_pc = "episode"
    /\ dqn_episode = 1
    /\ dqn_state = 0
    /\ dqn_last = NoStep
    /\ history = <<>>
    /\ train_steps = 0
    /\ last_sync = model

\* head of the for loop: stats append, env.reset()
DQNEpisodeStart ==
    /\ UNCHANGED notDqnVars
    /\ dqn_pc = "episode"
    /\ dqn_episode <= dqn_num_episodes
    /\ dqn_rewards' = Append(dqn_rewards, 0)
    /\ \E s0 \in EnvStates : dqn_state' = s0
    /\ dqn_pc' = "step"
    /\ dqn_last' = NoStep
    /\ UNCHANGED <<memory, model, target_model, target_update_counter,
                   dqn_episode, history, train_steps, last_sync>>

\* the for loop is exhausted
DQNFinish ==
    /\ UNCHANGED notDqnVars
    /\ dqn_pc = "episode"
    /\ dqn_episode > dqn_num_episodes
    /\ dqn_pc' = "finished"
    /\ dqn_last' = NoStep
    /\ UNCHANGED <<memory, model, target_model, target_update_counter, dqn_rewards,
                   dqn_episode, dqn_state, history, train_steps, last_sync>>

\* one pass of the while loop of execute(), lines 110-142
DQNStep ==
    /\ UNCHANGED notDqnVars
    /\ dqn_pc = "step"
    /\ Len(history) < MaxSteps
    /\ \E u \in RandomDraws :
       \E action \in select_action(Predict(model, dqn_state), dqn_epsilon, u) :
       \E out \in EnvStep(dqn_state, action) :
         LET tr   == [state |-> dqn_state, action |-> action, reward |-> out.reward,
                      new_state |-> out.new_state, done |-> out.done]
             mem1 == deque_append(memory, tr)
             \* the minibatch is local to train(): the step keeps the parameters
             trained == {[model |-> x.model, target_model |-> x.target_model,
                          trained |-> x.trained] : x \in train(mem1, model, target_model)}
         IN  \E tn \in trained :
               LET sy == sync(target_update_counter, tn.model, tn.target_model)
                   n  == Len(dqn_rewards)
               IN  /\ memory' = mem1
                   /\ model' = tn.model
                   /\ target_model' = sy.target_model
                   /\ target_update_counter' = sy.counter
                   /\ dqn_rewards' = [dqn_rewards EXCEPT ![n] = @ + out.reward]
                   /\ history' = Append(history, tr)
                   /\ train_steps' = IF tn.trained THEN train_steps + 1 ELSE train_steps
                   /\ last_sync' = IF sy.synced THEN tn.model ELSE last_sync
                   /\ dqn_last' = [kind |-> "train", epsilon |-> dqn_epsilon,
                                   q_values |-> Predict(model, dqn_state),
                                   action |-> action, explored |-> RatLt(u, dqn_epsilon),
                                   trained |-> tn.trained, synced |-> sy.synced]
                   /\ IF out.done
                      THEN IF dqn_to_show > 0 /\ dqn_episode % dqn_to_show = 0
                           THEN \* self.act(): env.reset()
                                /\ dqn_pc' = "act"
                                /\ \E s0 \in EnvStates : dqn_state' = s0
                                /\ UNCHANGED dqn_episode
                           ELSE /\ dqn_pc' = "episode"
                                /\ dqn_episode' = dqn_episode + 1
                                /\ UNCHANGED dqn_state
                      ELSE /\ dqn_pc' = "step"
                           /\ dqn_state' = out.new_state
                           /\ UNCHANGED dqn_episode

\* one pass of the while loop of act(), lines 205-209
DQNAct ==
    /\ UNCHANGED notDqnVars
    /\ dqn_pc = "act"
    /\ \E u \in RandomDraws :
       \E action \in select_action(Predict(model, dqn_state), act_epsilon, u) :
       \E out \in EnvStep(dqn_state, action) :
         /\ dqn_last' = [kind |-> "act", epsilon |-> act_epsilon,
                         q_values |-> Predict(model, dqn_state),
                         action |-> action, explored |-> RatLt(u, act_epsilon),
                         trained |-> FALSE, synced |-> FALSE]
         /\ IF out.done
            THEN /\ dqn_pc' = "episode"
                 /\ dqn_episode' = dqn_episode + 1
                 /\ UNCHANGED dqn_state
            ELSE /\ dqn_pc' = "act"
                 /\ dqn_state' = out.new_state
                 /\ UNCHANGED dqn_episode
    /\ UNCHANGED <<memory, model, target_model, target_update_counter, dqn_rewards,
                   history, train_steps, last_sync>>

DQNNext == DQNEpisodeStart \/ DQNStep \/ DQNAct \/ DQNFinish

\* the state of a DQNAgent that is not under study
DQNIdle ==
    /\ memory = <<>>
    /\ model = 0
    /\ target_model = 0
    /\ target_update_counter = 0
    /\ dqn_rewards = <<>>
    /\ dqn_pc = "idle"
    /\ dqn_episode = 1
    /\ dqn_state = 0
    /\ dqn_last = NoStep
    /\ history = <<>>
    /\ train_steps = 0
    /\ last_sync = 0

(***************************************************************************)
(* DQNAgent.train: minibatch and targets, on drawn inputs                  *)
(***************************************************************************)
\* self.gamma = .99
dqn_gamma == Rat(99, 100)

\* the transitions the environment can produce: (state, action, reward, new_state, done)
Transitions ==
    { [state |-> s, action |-> a, reward |-> out.reward, new_state |-> out.new_state,
       done |-> out.done] : <<s, a, out>> \in
          { <<s, a, out>> \in EnvStates \X DQNActions \X UNION {EnvStep(s, a) :
                <<s, a>> \in EnvStates \X DQNActions} : out \in EnvStep(s, a) } }

\* targets that bootstrap from the online network
train_targets_online(minibatch, m, t) ==
    LET rows      == DOMAIN minibatch
        predicted == [i \in rows |-> Predict(m, minibatch[i].state)]
        q_new     == [i \in rows |-> Predict(m, minibatch[i].new_state)]
        q_target  == [i \in rows |->
                        RatAdd(RatOfInt(minibatch[i].reward),
                               RatMul(RatMul(dqn_gamma,
                                             RatOfInt(1 - (IF minibatch[i].done THEN 1 ELSE 0))),
                                      np_max(q_new[i])))]
        q_values  == [i \in rows |->
                        [predicted[i] EXCEPT ![minibatch[i].action + 1] = q_target[i]]]
    IN  [predicted |-> predicted,
         target    |-> q_values,
         err       |-> [i \in rows |-> [a \in DOMAIN predicted[i] |->
                                           RatSub(q_values[i][a], predicted[i][a])]]]

\* DQNAgent.train lines 153-180, for a minibatch and the parameters m of the
\* online and t of the target network: predictions, target values and errors
train_targets(minibatch, m, t) ==
    LET rows      == DOMAIN minibatch
        \* predicted = self.model(states); q_values = predicted.numpy()
        predicted == [i \in rows |-> Predict(m, minibatch[i].state)]
        \* q_new = self.target_model.predict(next_states)
        q_new     == [i \in rows |-> Predict(t, minibatch[i].new_state)]
        \* q_target = rewards + self.gamma * (1 - done) * np.amax(q_new, axis=1)
        q_target  == [i \in rows |->
                        RatAdd(RatOfInt(minibatch[i].reward),
                               RatMul(RatMul(dqn_gamma,
                                             RatOfInt(1 - (IF minibatch[i].done THEN 1 ELSE 0))),
                                      np_max(q_new[i])))]
        \* q_values[range(len(actions)), actions] = q_target
        q_values  == [i \in rows |->
                        [predicted[i] EXCEPT ![minibatch[i].action + 1] = q_target[i]]]
    IN  [predicted |-> predicted,
         target    |-> q_values,
         \* err = target - predicted
         err       |-> [i \in rows |-> [a \in DOMAIN predicted[i] |->
                                           RatSub(q_values[i][a], predicted[i][a])]]]

NoTraining == [kind |-> "none"]

\* a replay memory holding at least batch_size transitions, and any parameters
TrainInit ==
    /\ \E n \in batch_size .. maxlen : tr_memory \in [1 .. n -> Transitions]
    /\ tr_model \in Weights
    /\ tr_target_model \in Weights
    /\ tr_out = NoTraining

TrainIdle ==
    /\ tr_memory = <<>>
    /\ tr_model = 0
    /\ tr_target_model = 0
    /\ tr_out = NoTraining

\* a call of train() past the early return: the minibatch is sampled and the
\* targets are computed; the gradient step that follows is DQNStep's train
TrainTargets ==
    /\ UNCHANGED notTrVars
    /\ Len(tr_memory) >= batch_size
    /\ \E minibatch \in random_sample(tr_memory, batch_size) :
         LET r == train_targets(minibatch, tr_model, tr_target_model)
         IN  tr_out' = [kind |-> "trained", minibatch |-> minibatch,
                        predicted |-> r.predicted, target |-> r.target, err |-> r.err]
    /\ UNCHANGED <<tr_memory, tr_model, tr_target_model>>

TrainNext == TrainTargets

(***************************************************************************)
(* Epsilon-greedy selection: SarsaAgent / QLearningAgent                   *)
(* epsilon_greedy_selection (the two copies are identical) and             *)
(* DQNAgent.select_action, applied to drawn inputs                         *)
(***************************************************************************)
\* longest vector of values drawn
MaxActions == 3

\* the values an estimate or a probability can take
SelQVals == {RatOfInt(0), Rat(1, 2), RatOfInt(1), RatOfInt(2)}

\* the exploration rates drawn: 0 (act), 0.1 (DQNAgent), 0.3 (tabular agents), 1
SelEpsilons == {Rat(0, 1), Rat(1, 10), Rat(3, 10), Rat(1, 1)}

\* [i for i, q in enumerate(q_values) if q == v], from position i on
RECURSIVE IndicesOf(_, _, _)
IndicesOf(q_values, v, i) ==
    IF i > Len(q_values)
    THEN <<>>
    ELSE (IF q_values[i] = v THEN <<i - 1>> ELSE <<>>) \o IndicesOf(q_values, v, i + 1)

\* a selection that explores when the draw equals epsilon (<= instead of <)
epsilon_greedy_selection_le(q_values, epsilon, u) ==
    IF ~RatLt(epsilon, u)
    THEN randint(0, Len(q_values))
    ELSE LET q_max == np_max(q_values)
             q_max_actions == IndicesOf(q_values, q_max, 1)
         IN  {q_max_actions[k + 1] : k \in randint(0, Len(q_max_actions))}

\* a selection that always takes the first maximizing action
epsilon_greedy_selection_first(q_values, epsilon, u) ==
    IF RatLt(u, epsilon)
    THEN randint(0, Len(q_values))
    ELSE LET q_max == np_max(q_values)
             q_max_actions == IndicesOf(q_values, q_max, 1)
         IN  {q_max_actions[1]}

\* epsilon_greedy_selection(q_values, epsilon), given the draw u of
\* np.random.random(): the set of actions the randint draws can make it return
epsilon_greedy_selection(q_values, epsilon, u) ==
    IF RatLt(u, epsilon)
    THEN randint(0, Len(q_values))
    ELSE LET q_max == np_max(q_values)
             q_max_actions == IndicesOf(q_values, q_max, 1)
         IN  {q_max_actions[k + 1] : k \in randint(0, Len(q_max_actions))}

NoSelection == [kind |-> "none"]

SelInit ==
    /\ \E n \in 2 .. MaxActions : sel_q \in [1 .. n -> SelQVals]
    /\ sel_eps \in SelEpsilons
    /\ sel_out = NoSelection

SelIdle ==
    /\ sel_q = <<>>
    /\ sel_eps = Rat(0, 1)
    /\ sel_out = NoSelection

\* a call of epsilon_greedy_selection(sel_q, sel_eps)
TabSelect ==
    /\ UNCHANGED notSelVars
    /\ \E u \in RandomDraws :
       \E action \in epsilon_greedy_selection(sel_q, sel_eps, u) :
         sel_out' = [kind |-> "tabular", u |-> u, explored |-> RatLt(u, sel_eps),
                     action |-> action]
    /\ UNCHANGED <<sel_q, sel_eps>>

\* a call of select_action(state, sel_eps) where model.predict(state) gives sel_q
DQNSelect ==
    /\ UNCHANGED notSelVars
    /\ Len(sel_q) = dqn_action_size
    /\ \E u \in RandomDraws :
       \E action \in select_action(sel_q, sel_eps, u) :
         sel_out' = [kind |-> "dqn", u |-> u, explored |-> RatLt(u, sel_eps),
                     action |-> action]
    /\ UNCHANGED <<sel_q, sel_eps>>

\* PGAgent: self.action_size = env.action_space.n (CartPole-v0: 2)
pg_action_size == 2
\* ACAgent: self.action_size = env.action_space.n (CartPole-v0: 2)
ac_action_size == 2

\* p.cumsum()[i]
RECURSIVE cumsum(_, _)
cumsum(p, i) == IF i = 0 THEN RatOfInt(0) ELSE RatAdd(cumsum(p, i - 1), p[i])

\* np.random.choice(range(n), 1, p=p)[0], given the draw u of the uniform
\* sample: the set holding the index returned, cdf.searchsorted(u, side='right'),
\* or the empty set when the call raises ValueError (p of another size than
\* range(n), a negative entry, or a sum other than 1)
np_random_choice(n, p, u) ==
    IF \/ Len(p) # n
       \/ \E i \in DOMAIN p : RatLt(p[i], RatOfInt(0))
       \/ cumsum(p, Len(p)) # RatOfInt(1)
    THEN {}
    ELSE {Cardinality({i \in DOMAIN p : ~RatLt(u, cumsum(p, i))})}

\* a call of PGAgent.select_action(state) where model.predict(state) gives sel_q
PGSelect ==
    /\ UNCHANGED notSelVars
    /\ \E u \in RandomDraws :
       \E action \in np_random_choice(pg_action_size, sel_q, u) :
         sel_out' = [kind |-> "pg", u |-> u, explored |-> FALSE, action |-> action]
    /\ UNCHANGED <<sel_q, sel_eps>>

\* a call of ACAgent.select_action(state) where actor_model.predict(state) gives sel_q
ACSelect ==
    /\ UNCHANGED notSelVars
    /\ \E u \in RandomDraws :
       \E action \in np_random_choice(ac_action_size, sel_q, u) :
         sel_out' = [kind |-> "ac", u |-> u, explored |-> FALSE, action |-> action]
    /\ UNCHANGED <<sel_q, sel_eps>>

SelNext == TabSelect \/ DQNSelect \/ PGSelect \/ ACSelect

(***************************************************************************)
(* SarsaAgent / QLearningAgent: discretizer and targets, on drawn inputs   *)
(***************************************************************************)
\* env.observation_space.low and .high of MountainCar-v0: position, velocity
observation_low == <<Rat(-6, 5), Rat(-7, 100)>>
observation_high == <<Rat(3, 5), Rat(7, 100)>>

\* num_grids=[20, 20] of the notebook's example
num_grids == <<20, 20>>

\* env.action_space.n of MountainCar-v0
tab_action_n == 3

\* self.epsilon = 0.3, self.gamma = 0.99
tab_epsilon == Rat(3, 10)
tab_gamma == Rat(99, 100)

\* observations are drawn at low + k * (high - low) / ObsResolution, k = 0 .. ObsResolution
ObsResolution == 3

\* self.grid_size = (high - low) / num_grids
grid_size ==
    [i \in DOMAIN num_grids |->
        RatDiv(RatSub(observation_high[i], observation_low[i]), RatOfInt(num_grids[i]))]

\* get_discrete_state(state): ((state - low) / grid_size).astype(np.int)
get_discrete_state(state) ==
    [i \in DOMAIN state |->
        RatTrunc(RatDiv(RatSub(state[i], observation_low[i]), grid_size[i]))]

\* SarsaAgent.execute lines 156-159: q_new from the action selected for new_state
sarsa_q_new_no_done(q_row, new_action, reward, done, gamma) ==
    RatAdd(reward, RatMul(gamma, q_row[new_action + 1]))

sarsa_q_new(q_row, new_action, reward, done, gamma) ==
    IF done
    THEN reward
    ELSE RatAdd(reward, RatMul(gamma, q_row[new_action + 1]))

\* a target that bootstraps from a terminal transition too
qlearning_q_new_no_done(q_row, reward, done, gamma) ==
    RatAdd(reward, RatMul(gamma, np_max(q_row)))

\* QLearningAgent.execute lines 351-354: q_new from the maximum over new_state
qlearning_q_new(q_row, reward, done, gamma) ==
    IF done
    THEN reward
    ELSE RatAdd(reward, RatMul(gamma, np_max(q_row)))

\* the observations drawn in dimension i, both bounds included
ObsPoints(i) ==
    { RatAdd(observation_low[i],
             RatMul(Rat(k, ObsResolution),
                    RatSub(observation_high[i], observation_low[i]))) :
        k \in 0 .. ObsResolution }

TabQVals == {RatOfInt(-1), RatOfInt(0), Rat(1, 2)}
TabRewards == {RatOfInt(-1), RatOfInt(0)}

NoTargets == [kind |-> "none"]

TabInit ==
    /\ tab_obs \in [DOMAIN num_grids -> UNION {ObsPoints(i) : i \in DOMAIN num_grids}]
    /\ \A i \in DOMAIN num_grids : tab_obs[i] \in ObsPoints(i)
    /\ tab_discrete = <<>>
    /\ tab_q_row \in [1 .. tab_action_n -> TabQVals]
    /\ tab_reward \in TabRewards
    /\ tab_done \in BOOLEAN
    /\ tab_out = NoTargets

TabIdle ==
    /\ tab_obs = <<>>
    /\ tab_discrete = <<>>
    /\ tab_q_row = <<>>
    /\ tab_reward = RatOfInt(0)
    /\ tab_done = FALSE
    /\ tab_out = NoTargets

\* new_state = self.get_discrete_state(new_state)
TabDiscretize ==
    /\ UNCHANGED notTabVars
    /\ tab_discrete = <<>>
    /\ tab_discrete' = get_discrete_state(tab_obs)
    /\ UNCHANGED <<tab_obs, tab_q_row, tab_reward, tab_done, tab_out>>

\* SARSA selects new_action on Q[new_state]; both agents' q_new for this transition
TabTargets ==
    /\ UNCHANGED notTabVars
    /\ tab_out = NoTargets
    /\ \E u \in RandomDraws :
       \E new_action \in epsilon_greedy_selection(tab_q_row, tab_epsilon, u) :
         tab_out' = [kind |-> "targets", new_action |-> new_action,
                     explored |-> RatLt(u, tab_epsilon),
                     sarsa |-> sarsa_q_new(tab_q_row, new_action, tab_reward, tab_done, tab_gamma),
                     qlearning |-> qlearning_q_new(tab_q_row, tab_reward, tab_done, tab_gamma)]
    /\ UNCHANGED <<tab_obs, tab_discrete, tab_q_row, tab_reward, tab_done>>

TabNext == TabDiscretize \/ TabTargets

(***************************************************************************)
(* PGAgent.calc_returns, on drawn inputs                                   *)
(***************************************************************************)
\* longest rewards list drawn
MaxLen == 3

\* the rewards an environment can hand back: Python ints or Python floats
PGRewardValues ==
    { [py |-> "int", v |-> RatOfInt(1)], [py |-> "int", v |-> RatOfInt(-1)],
      [py |-> "float", v |-> RatOfInt(1)], [py |-> "float", v |-> Rat(1, 2)] }

\* the discount rates drawn: 0.5 and self.gamma = 0.99
PGGammas == {Rat(1, 2), Rat(99, 100)}

\* dtype of np.zeros_like(rewards) for a Python list: the dtype np.array(rewards)
\* infers, int64 for a non-empty list of ints only, float64 otherwise
zeros_like_dtype(rewards) ==
    IF rewards # <<>> /\ \A i \in DOMAIN rewards : rewards[i].py = "int"
    THEN "int64"
    ELSE "float64"

\* returns[t] = x: the value is converted to the array's dtype
np_setitem(dtype, x) == IF dtype = "int64" THEN RatOfInt(RatTrunc(x)) ELSE x

\* the loop of calc_returns from position t down to the first
RECURSIVE calc_returns_loop(_, _, _, _, _, _)
calc_returns_loop(rewards, gamma, dtype, t, cumulative, returns) ==
    IF t = 0
    THEN returns
    ELSE LET c == RatAdd(rewards[t].v, RatMul(gamma, cumulative))
         IN  calc_returns_loop(rewards, gamma, dtype, t - 1, c,
                               [returns EXCEPT ![t] = np_setitem(dtype, c)])

\* PGAgent.calc_returns(rewards)
calc_returns(rewards, gamma) ==
    LET dtype == zeros_like_dtype(rewards)
        zeros == [t \in 1 .. Len(rewards) |-> RatOfInt(0)]
    IN  [dtype |-> dtype,
         values |-> calc_returns_loop(rewards, gamma, dtype, Len(rewards),
                                      RatOfInt(0), zeros)]

NoReturns == [dtype |-> "none", values |-> <<>>]

PGInit ==
    /\ \E n \in 0 .. MaxLen : pg_rewards \in [1 .. n -> PGRewardValues]
    /\ pg_gamma \in PGGammas
    /\ pg_returns = NoReturns

PGIdle ==
    /\ pg_rewards = <<>>
    /\ pg_gamma = Rat(99, 100)
    /\ pg_returns = NoReturns

\* returns = self.calc_returns(self.memory_rewards)
PGCalcReturns ==
    /\ UNCHANGED notPgVars
    /\ pg_returns = NoReturns
    /\ pg_returns' = calc_returns(pg_rewards, pg_gamma)
    /\ UNCHANGED <<pg_rewards, pg_gamma>>

PGNext == PGCalcReturns

(***************************************************************************)
(* ACAgent                                                                 *)
(***************************************************************************)
\* self.num_episodes = 1000, scaled down
ac_num_episodes == 3
\* cap on the number of environment steps of training explored
MaxACSteps == 5

\* self.gamma = 0.9
ac_gamma == Rat(9, 10)

\* ACAgent.select_action: np.random.choice over the actor's probabilities; the
\* network is opaque, any action may carry positive probability
ac_select_action(w, s) == randint(0, ac_action_size)

\* self.critic_model.predict(state)[0][0]: the value a critic with parameters w
\* gives observation s; a fixed function of (w, s)
Value(w, s) == Rat(((2 * w) + s + 1) % 3, 2)

\* a TD error that bootstraps from the terminal transition too
ac_td_error_no_done(critic, state, new_state, reward, done) ==
    LET new_value == RatAdd(RatOfInt(reward), RatMul(ac_gamma, Value(critic, new_state)))
        value     == Value(critic, state)
    IN  [new_value |-> new_value, value |-> value, delta |-> RatSub(new_value, value)]

\* ACAgent.train lines 514-522: new_value, value and delta, all from the
\* critic's parameters as train() finds them
ac_td_error(critic, state, new_state, reward, done) ==
    LET \* new_value = reward + (1 - done) * self.gamma * critic.predict(new_state)
        new_value == RatAdd(RatOfInt(reward),
                            RatMul(RatMul(RatOfInt(1 - (IF done THEN 1 ELSE 0)), ac_gamma),
                                   Value(critic, new_state)))
        \* value = self.critic_model(state)
        value     == Value(critic, state)
    IN  [new_value |-> new_value, value |-> value, delta |-> RatSub(new_value, value)]

\* a train() whose actor loss is weighted by I after its multiplication by gamma
ac_train_decayed_weight(actor, critic, state, new_state, reward, done, I) ==
    LET td == ac_td_error(critic, state, new_state, reward, done)
    IN  {[actor_model |-> a, critic_model |-> c, new_value |-> td.new_value,
          value |-> td.value, delta |-> td.delta,
          actor_weight |-> RatMul(td.delta, RatMul(I, ac_gamma)),
          updates |-> <<"critic", "actor">>] : a \in Weights, c \in Weights}

\* ACAgent.train: the TD error, then one update of the critic (loss
\* -delta * value), then one of the actor (loss -log_prob * delta * self.I),
\* each to any parameter set; actor_weight is the factor delta * self.I
ac_train(actor, critic, state, new_state, reward, done, I) ==
    LET td == ac_td_error(critic, state, new_state, reward, done)
    IN  {[actor_model |-> a, critic_model |-> c, new_value |-> td.new_value,
          value |-> td.value, delta |-> td.delta,
          actor_weight |-> RatMul(td.delta, I),
          updates |-> <<"critic", "actor">>] : a \in Weights, c \in Weights}

\* line 469: self.I = 1.
reset_I(I) == RatOfInt(1)

\* a loop that multiplies I on the terminal transition as well
decay_I_always(I, done) == RatMul(I, ac_gamma)

\* lines 491-495: I is multiplied by gamma unless the step was terminal
decay_I(I, done) == IF done THEN I ELSE RatMul(I, ac_gamma)

NoACStep == [kind |-> "none"]

ACInit ==
    /\ ac_I = RatOfInt(1)            \* line 457
    /\ ac_pc = "episode"
    /\ ac_episode = 1
    /\ ac_state = 0
    /\ ac_rewards = <<>>
    /\ actor_model \in Weights
    /\ critic_model \in Weights
    /\ ac_last = NoACStep
    /\ ac_k = 0
    /\ ac_steps = 0
    /\ ac_history = <<>>
    /\ ac_updates = <<>>

ACIdle ==
    /\ ac_I = RatOfInt(1)
    /\ ac_pc = "idle"
    /\ ac_episode = 1
    /\ ac_state = 0
    /\ ac_rewards = <<>>
    /\ actor_model = 0
    /\ critic_model = 0
    /\ ac_last = NoACStep
    /\ ac_k = 0
    /\ ac_steps = 0
    /\ ac_history = <<>>
    /\ ac_updates = <<>>

\* head of the for loop, lines 462-469
ACEpisodeStart ==
    /\ UNCHANGED notAcVars
    /\ ac_pc = "episode"
    /\ ac_episode <= ac_num_episodes
    /\ ac_rewards' = Append(ac_rewards, 0)
    /\ \E s0 \in EnvStates : ac_state' = s0
    /\ ac_I' = reset_I(ac_I)
    /\ ac_k' = 0
    /\ ac_pc' = "step"
    /\ ac_last' = [kind |-> "start"]
    /\ UNCHANGED <<ac_episode, actor_model, critic_model, ac_steps, ac_history, ac_updates>>

\* the for loop is exhausted
ACFinish ==
    /\ UNCHANGED notAcVars
    /\ ac_pc = "episode"
    /\ ac_episode > ac_num_episodes
    /\ ac_pc' = "finished"
    /\ UNCHANGED <<ac_I, ac_episode, ac_state, ac_rewards, actor_model, critic_model,
                   ac_last, ac_k, ac_steps, ac_history, ac_updates>>

\* one pass of the while loop, lines 472-503 (show_episode = -1: act() is not called)
ACStep ==
    /\ UNCHANGED notAcVars
    /\ ac_pc = "step"
    /\ ac_steps < MaxACSteps
    /\ \E action \in ac_select_action(actor_model, ac_state) :
       \E out \in EnvStep(ac_state, action) :
       \E tn \in ac_train(actor_model, critic_model, ac_state, out.new_state, out.reward,
                           out.done, ac_I) :
         LET n == Len(ac_rewards)
         IN  /\ actor_model' = tn.actor_model
             /\ critic_model' = tn.critic_model
             /\ ac_rewards' = [ac_rewards EXCEPT ![n] = @ + out.reward]
             /\ ac_I' = decay_I(ac_I, out.done)
             /\ ac_k' = IF out.done THEN ac_k ELSE ac_k + 1
             /\ ac_steps' = ac_steps + 1
             /\ ac_history' = Append(ac_history, [reward |-> out.reward, done |-> out.done])
             /\ ac_last' = [kind |-> "step", I_used |-> ac_I, done |-> out.done,
                            state |-> ac_state, action |-> action,
                            new_state |-> out.new_state, reward |-> out.reward,
                            new_value |-> tn.new_value, value |-> tn.value,
                            delta |-> tn.delta, actor_weight |-> tn.actor_weight]
             /\ ac_updates' = ac_updates \o tn.updates
             /\ IF out.done
                THEN /\ ac_pc' = "episode"
                     /\ ac_episode' = ac_episode + 1
                     /\ UNCHANGED ac_state
                ELSE /\ ac_pc' = "step"
                     /\ ac_state' = out.new_state
                     /\ UNCHANGED ac_episode

ACNext == ACEpisodeStart \/ ACStep \/ ACFinish

(***************************************************************************)
(* SarsaAgent / QLearningAgent: execute() and act()                        *)
(***************************************************************************)
\* self.num_episodes = 5000, scaled down
td_num_episodes == 3
\* self.to_show = 500, scaled down
td_to_show == 2
\* training steps explored over all episodes
MaxTDSteps == 4

\* the actions of the environments below: range(env.action_space.n)
TDActions == {0, 1}

\* the environments. "toy": from its only non-terminal state 0, action 0
\* yields reward 1 and terminates, action 1 yields reward 0 and returns to
\* state 0. "chain": the two-state environment EnvStep, whose episodes end at
\* any step. "penalty": as "toy", but every step yields reward -1. All have
\* one observation dimension with low = 0 and high = 2.
TDEnvs == {"toy", "chain", "penalty"}
td_low == <<RatOfInt(0)>>
td_high == <<RatOfInt(2)>>
td_num_grids == <<2>>

\* the observation vector of environment state s
TDObs(s) == <<RatOfInt(s)>>

\* env.reset()
TDEnvReset(env) == IF env \in {"toy", "penalty"} THEN {0} ELSE EnvStates

\* env.step(action) in environment state s
TDEnvStep(env, s, a) ==
    IF env = "toy"
    THEN {[new_state |-> (IF a = 0 THEN 1 ELSE 0), reward |-> (IF a = 0 THEN 1 ELSE 0),
           done |-> (a = 0)]}
    ELSE IF env = "penalty"
    THEN {[new_state |-> (IF a = 0 THEN 1 ELSE 0), reward |-> -1, done |-> (a = 0)]}
    ELSE EnvStep(s, a)

\* the least and the greatest reward env.step can return
td_r_min(env) == IF env = "penalty" THEN RatOfInt(-1) ELSE RatOfInt(0)
td_r_max(env) == IF env = "penalty" THEN RatOfInt(0) ELSE RatOfInt(1)

\* self.grid_size = (high - low) / num_grids, for the environments above
td_grid_size ==
    [i \in DOMAIN td_num_grids |->
        RatDiv(RatSub(td_high[i], td_low[i]), RatOfInt(td_num_grids[i]))]

\* get_discrete_state(state), for the environments above
td_get_discrete_state(state) ==
    [i \in DOMAIN state |-> RatTrunc(RatDiv(RatSub(state[i], td_low[i]), td_grid_size[i]))]

\* a table of ones
td_ones ==
    [s \in {<<i>> : i \in 0 .. (td_num_grids[1] - 1)} |->
        [a \in 1 .. Cardinality(TDActions) |-> RatOfInt(1)]]

\* np.zeros(table_size): table_size = num_grids + [env.action_space.n]
td_zeros ==
    [s \in {<<i>> : i \in 0 .. (td_num_grids[1] - 1)} |->
        [a \in 1 .. Cardinality(TDActions) |-> RatOfInt(0)]]

\* an update that moves the entry away from q_new
td_update_away(q_old, q_new, alpha) == RatAdd(q_old, RatMul(alpha, RatSub(q_old, q_new)))

\* an update that takes twice the step
td_update_overshoot(q_old, q_new, alpha) ==
    RatAdd(q_old, RatMul(RatMul(RatOfInt(2), alpha), RatSub(q_new, q_old)))

\* q_old + self.alpha * (q_new - q_old)
td_update(q_old, q_new, alpha) == RatAdd(q_old, RatMul(alpha, RatSub(q_new, q_old)))

\* a carry-over that keeps the old state
sarsa_carry_stale(state, action, new_state, new_action) ==
    [state |-> state, action |-> new_action]

\* SarsaAgent.execute lines 177-178: state = new_state; action = new_action
sarsa_carry(state, action, new_state, new_action) ==
    [state |-> new_state, action |-> new_action]

\* self.alpha and self.gamma: attributes of the agent (0.1 and 0.99 unless reassigned)
TDAlphas == {Rat(1, 2), Rat(1, 1)}
TDGammas == {Rat(0, 1), Rat(1, 2), Rat(1, 1)}

\* a pass of the loop that selects the next action after the table is written
sarsa_step_select_after(q, state, action, new_state, reward, done, alpha, gamma, epsilon, u) ==
    UNION {
      LET q_new == sarsa_q_new(q[new_state], first_action, reward, done, gamma)
          q2    == [q EXCEPT ![state][action + 1] = td_update(@, q_new, alpha)]
      IN  {[new_action |-> new_action, q_table |-> q2, select_row |-> q2[new_state]] :
             new_action \in epsilon_greedy_selection(q2[new_state], epsilon, u)}
      : first_action \in epsilon_greedy_selection(q[new_state], epsilon, u)}

\* SarsaAgent.execute lines 153-168: the next action is selected on the table
\* as it is (line 153), then the entry of (state, action) is written (line 168);
\* the set of (next action, table) pairs the pass can produce
sarsa_step(q, state, action, new_state, reward, done, alpha, gamma, epsilon, u) ==
    {LET q_new == sarsa_q_new(q[new_state], new_action, reward, done, gamma)
     IN  [new_action |-> new_action,
          q_table |-> [q EXCEPT ![state][action + 1] = td_update(@, q_new, alpha)],
          select_row |-> q[new_state]] :
       new_action \in epsilon_greedy_selection(q[new_state], epsilon, u)}

NoTDStep == [kind |-> "none"]

\* the state after SarsaAgent(env, num_grids) or QLearningAgent(env, num_grids)
TDInit ==
    /\ td_agent \in {"sarsa", "qlearning"}
    /\ td_env \in TDEnvs
    /\ td_alpha \in TDAlphas
    /\ td_gamma \in TDGammas
    /\ q_table = td_zeros
    /\ td_pc = "episode"
    /\ td_episode = 0
    /\ td_env_state = 0
    /\ td_state = <<0>>
    /\ td_action = 0
    /\ td_rewards = <<>>
    /\ td_last = NoTDStep
    /\ td_history = <<>>

TDIdle ==
    /\ td_agent = "none"
    /\ td_env = "none"
    /\ td_alpha = Rat(0, 1)
    /\ td_gamma = Rat(0, 1)
    /\ q_table = td_zeros
    /\ td_pc = "idle"
    /\ td_episode = 0
    /\ td_env_state = 0
    /\ td_state = <<0>>
    /\ td_action = 0
    /\ td_rewards = <<>>
    /\ td_last = NoTDStep
    /\ td_history = <<>>

\* the end of a pass of the episode loop, lines 181-186 / 374-379: act() is
\* called when episode % to_show = 0, and the loop variable advances after it
TDAfterEpisode ==
    IF td_to_show > 0 /\ td_episode % td_to_show = 0
    THEN /\ td_pc' = "act"
         /\ td_env_state' \in TDEnvReset(td_env)
         /\ UNCHANGED td_episode
    ELSE /\ td_pc' = "episode"
         /\ td_episode' = td_episode + 1
         /\ UNCHANGED td_env_state

\* SarsaAgent.execute lines 129-141: a new episode starts, the first action is selected
SarsaEpisodeStart ==
    /\ UNCHANGED notTdVars
    /\ td_agent = "sarsa"
    /\ td_pc = "episode"
    /\ td_episode < td_num_episodes
    /\ \E s0 \in TDEnvReset(td_env) :
       \E u \in RandomDraws :
         LET state == td_get_discrete_state(TDObs(s0))
         IN  \E action \in epsilon_greedy_selection(q_table[state], tab_epsilon, u) :
               /\ td_env_state' = s0
               /\ td_state' = state
               /\ td_action' = action
               /\ td_last' = [kind |-> "start", state |-> state, action |-> action,
                              reset |-> s0]
    /\ td_rewards' = Append(td_rewards, 0)
    /\ td_pc' = "step"
    /\ UNCHANGED <<td_agent, td_env, td_alpha, td_gamma, q_table, td_episode, td_history>>

\* one pass of the while loop of SarsaAgent.execute, lines 144-178
SarsaStep ==
    /\ UNCHANGED notTdVars
    /\ td_agent = "sarsa"
    /\ td_pc = "step"
    /\ Len(td_history) < MaxTDSteps
    /\ \E out \in TDEnvStep(td_env, td_env_state, td_action) :
       \E u \in RandomDraws :
         LET new_state == td_get_discrete_state(TDObs(out.new_state))
         IN  \E st \in sarsa_step(q_table, td_state, td_action, new_state,
                                  RatOfInt(out.reward), out.done, td_alpha, td_gamma,
                                  tab_epsilon, u) :
               LET new_action == st.new_action
                   next  == sarsa_carry(td_state, td_action, new_state, new_action)
                   n     == Len(td_rewards)
               IN  /\ q_table' = st.q_table
                   /\ td_rewards' = [td_rewards EXCEPT ![n] = @ + out.reward]
                   /\ td_history' = Append(td_history,
                                           [reward |-> out.reward, done |-> out.done])
                   /\ td_last' = [kind |-> "step", state |-> td_state, action |-> td_action,
                                  env_state |-> td_env_state, reward |-> out.reward,
                                  new_state |-> new_state, new_action |-> new_action,
                                  done |-> out.done, u |-> u,
                                  select_row |-> st.select_row]
                   /\ IF out.done
                      THEN /\ TDAfterEpisode
                           /\ UNCHANGED <<td_state, td_action>>
                      ELSE /\ td_state' = next.state
                           /\ td_action' = next.action
                           /\ td_env_state' = out.new_state
                           /\ UNCHANGED <<td_pc, td_episode>>
    /\ UNCHANGED <<td_agent, td_env, td_alpha, td_gamma>>

\* QLearningAgent.execute lines 327-336: a new episode starts
QLEpisodeStart ==
    /\ UNCHANGED notTdVars
    /\ td_agent = "qlearning"
    /\ td_pc = "episode"
    /\ td_episode < td_num_episodes
    /\ \E s0 \in TDEnvReset(td_env) :
         /\ td_env_state' = s0
         /\ td_state' = td_get_discrete_state(TDObs(s0))
         /\ td_last' = [kind |-> "start", state |-> td_get_discrete_state(TDObs(s0)),
                        action |-> -1, reset |-> s0]
    /\ td_rewards' = Append(td_rewards, 0)
    /\ td_pc' = "step"
    /\ UNCHANGED <<td_agent, td_env, td_alpha, td_gamma, q_table, td_episode, td_action,
                   td_history>>

\* one pass of the while loop of QLearningAgent.execute, lines 339-372
QLStep ==
    /\ UNCHANGED notTdVars
    /\ td_agent = "qlearning"
    /\ td_pc = "step"
    /\ Len(td_history) < MaxTDSteps
    /\ \E u \in RandomDraws :
       \E action \in epsilon_greedy_selection(q_table[td_state], tab_epsilon, u) :
       \E out \in TDEnvStep(td_env, td_env_state, action) :
         LET new_state == td_get_discrete_state(TDObs(out.new_state))
             q_new == qlearning_q_new(q_table[new_state], RatOfInt(out.reward), out.done,
                                      td_gamma)
             q_old == q_table[td_state][action + 1]
             n     == Len(td_rewards)
         IN  /\ q_table' = [q_table EXCEPT ![td_state][action + 1] =
                                               td_update(q_old, q_new, td_alpha)]
             /\ td_rewards' = [td_rewards EXCEPT ![n] = @ + out.reward]
             /\ td_history' = Append(td_history, [reward |-> out.reward, done |-> out.done])
             /\ td_last' = [kind |-> "step", state |-> td_state, action |-> action,
                            env_state |-> td_env_state, reward |-> out.reward,
                            new_state |-> new_state, new_action |-> -1,
                            done |-> out.done, u |-> u,
                            select_row |-> q_table[td_state]]
             /\ IF out.done
                THEN /\ TDAfterEpisode
                     /\ UNCHANGED td_state
                ELSE /\ td_state' = new_state
                     /\ td_env_state' = out.new_state
                     /\ UNCHANGED <<td_pc, td_episode>>
    /\ UNCHANGED <<td_agent, td_env, td_alpha, td_gamma, td_action>>

\* one pass of the while loop of act(), lines 107-111 / 305-309
TDAct ==
    /\ UNCHANGED notTdVars
    /\ td_pc = "act"
    /\ \E u \in RandomDraws :
         LET state == td_get_discrete_state(TDObs(td_env_state))
         IN  \E action \in epsilon_greedy_selection(q_table[state], act_epsilon, u) :
             \E out \in TDEnvStep(td_env, td_env_state, action) :
               /\ td_last' = [kind |-> "act", state |-> state, action |-> action,
                              env_state |-> td_env_state, reward |-> out.reward,
                              new_state |-> td_get_discrete_state(TDObs(out.new_state)),
                              new_action |-> -1, done |-> out.done, u |-> u,
                              select_row |-> q_table[state]]
               /\ IF out.done
                  THEN /\ td_pc' = "episode"
                       /\ td_episode' = td_episode + 1
                       /\ UNCHANGED td_env_state
                  ELSE /\ td_env_state' = out.new_state
                       /\ UNCHANGED <<td_pc, td_episode>>
    /\ UNCHANGED <<td_agent, td_env, td_alpha, td_gamma, q_table, td_state, td_action,
                   td_rewards, td_history>>

\* execute() returns one episode early
TDFinishEarly ==
    /\ UNCHANGED notTdVars
    /\ td_pc = "episode"
    /\ td_episode >= td_num_episodes - 1
    /\ td_pc' = "finished"
    /\ td_last' = NoTDStep
    /\ UNCHANGED <<td_agent, td_env, td_alpha, td_gamma, q_table, td_episode, td_env_state,
                   td_state, td_action, td_rewards, td_history>>

\* the for loop of execute() is exhausted
TDFinish ==
    /\ UNCHANGED notTdVars
    /\ td_pc = "episode"
    /\ td_episode = td_num_episodes
    /\ td_pc' = "finished"
    /\ td_last' = NoTDStep
    /\ UNCHANGED <<td_agent, td_env, td_alpha, td_gamma, q_table, td_episode, td_env_state,
                   td_state, td_action, td_rewards, td_history>>

TDNext == SarsaEpisodeStart \/ SarsaStep \/ QLEpisodeStart \/ QLStep \/ TDAct \/ TDFinish

(***************************************************************************)
(* SarsaAgent / QLearningAgent: construction on a drawn num_grids          *)
(***************************************************************************)
\* the largest grid-cell count drawn for a dimension
MaxGridCells == 8

\* env.reset() of MountainCar-v0: a position in [-0.6, -0.4], velocity 0
reset_observation == <<Rat(-1, 2), Rat(0, 1)>>

\* x / 0 in a numpy array is inf (with a RuntimeWarning, not an exception)
np_inf == [inf |-> TRUE, v |-> Rat(0, 1)]

\* SarsaAgent.__init__(env, num_grids) / QLearningAgent.__init__(env, num_grids),
\* lines 84-88: the grid size is computed, then the table is allocated;
\* np.zeros raises ValueError on a negative dimension and accepts a zero one
tabular_init(grids) ==
    LET gs == [i \in DOMAIN grids |->
                  IF grids[i] = 0
                  THEN np_inf
                  ELSE [inf |-> FALSE,
                        v |-> RatDiv(RatSub(observation_high[i], observation_low[i]),
                                     RatOfInt(grids[i]))]]
    IN  IF \E i \in DOMAIN grids : grids[i] < 0
        THEN [kind |-> "error", error |-> "ValueError"]
        ELSE [kind |-> "agent", grid_size |-> gs,
              table_size |-> grids \o <<tab_action_n>>]

\* get_discrete_state(state) with the constructed agent's grid size: a finite
\* value divided by inf is 0.0
agent_discrete_state(agent, state) ==
    [i \in DOMAIN state |->
        IF agent.grid_size[i].inf
        THEN 0
        ELSE RatTrunc(RatDiv(RatSub(state[i], observation_low[i]), agent.grid_size[i].v))]

\* the first self.q_table[state] of execute(): IndexError when an index is
\* outside its axis
first_lookup(agent, observation) ==
    LET state == agent_discrete_state(agent, observation)
    IN  IF \A i \in DOMAIN state : 0 <= state[i] /\ state[i] < agent.table_size[i]
        THEN "training"
        ELSE "IndexError"

NoAgent == [kind |-> "none"]

\* a num_grids about to be handed to the constructor
CfgInit ==
    /\ cfg_num_grids \in [DOMAIN observation_low -> (-1) .. MaxGridCells]
    /\ cfg_agent = NoAgent
    /\ cfg_run = "none"

CfgIdle ==
    /\ cfg_num_grids = <<>>
    /\ cfg_agent = NoAgent
    /\ cfg_run = "idle"

\* SarsaAgent(env, num_grids) / QLearningAgent(env, num_grids)
CfgConstruct ==
    /\ UNCHANGED notCfgVars
    /\ cfg_run = "none"
    /\ cfg_agent = NoAgent
    /\ cfg_agent' = tabular_init(cfg_num_grids)
    /\ UNCHANGED <<cfg_num_grids, cfg_run>>

\* agent.execute() up to its first table lookup
CfgExecute ==
    /\ UNCHANGED notCfgVars
    /\ cfg_run = "none"
    /\ cfg_agent.kind = "agent"
    /\ cfg_run' = first_lookup(cfg_agent, reset_observation)
    /\ UNCHANGED <<cfg_num_grids, cfg_agent>>

CfgNext == CfgConstruct \/ CfgExecute

(***************************************************************************)
(* PGAgent: execute()                                                      *)
(***************************************************************************)
\* self.num_episodes = 1000, scaled down
pge_num_episodes == 3
\* cap on the number of environment steps of training explored
MaxPGSteps == 4

\* self.model.predict(state).flatten(): the action probabilities under
\* parameters w in observation s; a fixed function of (w, s)
Policy(w, s) ==
    IF w = s
    THEN <<Rat(1, 2), Rat(1, 2)>>
    ELSE IF w = 0 THEN <<Rat(1, 1), Rat(0, 1)>> ELSE <<Rat(0, 1), Rat(1, 1)>>

\* PGAgent.select_action(state), given the draw u of np.random.choice
pge_select_action(w, s, u) == np_random_choice(pg_action_size, Policy(w, s), u)

\* lines 118-119: actions_one_hot = [0] * self.action_size; actions_one_hot[action] = 1
one_hot(action, n) == [i \in 1 .. n |-> IF i = action + 1 THEN 1 ELSE 0]

\* the number of rewards instead of their sum
py_sum_count(rewards) == Len(rewards)

\* sum(rewards) of a list of numbers
RECURSIVE py_sum(_)
py_sum(rewards) == IF rewards = <<>> THEN 0 ELSE Head(rewards) + py_sum(Tail(rewards))

\* PGAgent.train(): one gradient step on the episode's data, to any parameter set
pge_train(w, states, actions, rewards) == Weights

\* the three lists are left as they are
pge_clear_keep(mem) == mem

\* lines 139-141: self.memory_states.clear(), and the same for actions and rewards
pge_clear(mem) == <<>>

NoPGStep == [kind |-> "none"]

\* the state after PGAgent(env, model, optimizer)
PGEInit ==
    /\ pge_pc = "episode"
    /\ pge_episode = 1
    /\ pge_state = 0
    /\ pge_model \in Weights
    /\ memory_states = <<>>
    /\ memory_actions = <<>>
    /\ memory_rewards = <<>>
    /\ pge_rewards = <<>>
    /\ pge_last = NoPGStep
    /\ pge_history = <<>>

PGEIdle ==
    /\ pge_pc = "idle"
    /\ pge_episode = 1
    /\ pge_state = 0
    /\ pge_model = 0
    /\ memory_states = <<>>
    /\ memory_actions = <<>>
    /\ memory_rewards = <<>>
    /\ pge_rewards = <<>>
    /\ pge_last = NoPGStep
    /\ pge_history = <<>>

\* head of the for loop, lines 104-106
PGEEpisodeStart ==
    /\ UNCHANGED notPgeVars
    /\ pge_pc = "episode"
    /\ pge_episode <= pge_num_episodes
    /\ \E s0 \in EnvStates : pge_state' = s0
    /\ pge_pc' = "step"
    /\ pge_last' = [kind |-> "start"]
    /\ UNCHANGED <<pge_episode, pge_model, memory_states, memory_actions, memory_rewards,
                   pge_rewards, pge_history>>

\* one pass of the while loop, lines 109-130, and on the terminal step the rest
\* of the episode's pass, lines 133-149 (show_episode = -1: act() is not called)
PGEStep ==
    /\ UNCHANGED notPgeVars
    /\ pge_pc = "step"
    /\ Len(pge_history) < MaxPGSteps
    /\ \E u \in RandomDraws :
       \E action \in pge_select_action(pge_model, pge_state, u) :
       \E out \in EnvStep(pge_state, action) :
         LET states  == Append(memory_states, pge_state)
             actions == Append(memory_actions, one_hot(action, pg_action_size))
             rewards == Append(memory_rewards, out.reward)
         IN  /\ pge_history' = Append(pge_history,
                                      [state |-> pge_state, action |-> action,
                                       reward |-> out.reward, done |-> out.done])
             /\ IF out.done
                THEN /\ pge_rewards' = Append(pge_rewards, py_sum(rewards))
                     /\ pge_model' \in pge_train(pge_model, states, actions, rewards)
                     /\ memory_states' = pge_clear(states)
                     /\ memory_actions' = pge_clear(actions)
                     /\ memory_rewards' = pge_clear(rewards)
                     /\ pge_pc' = "episode"
                     /\ pge_episode' = pge_episode + 1
                     /\ pge_last' = [kind |-> "step", action |-> action, done |-> TRUE,
                                     trained_on |-> Len(rewards), trains |-> 1,
                                     states |-> states, actions |-> actions,
                                     rewards |-> rewards]
                     /\ UNCHANGED pge_state
                ELSE /\ memory_states' = states
                     /\ memory_actions' = actions
                     /\ memory_rewards' = rewards
                     /\ pge_state' = out.new_state
                     /\ pge_last' = [kind |-> "step", action |-> action, done |-> FALSE,
                                     trained_on |-> 0, trains |-> 0,
                                     states |-> <<>>, actions |-> <<>>,
                                     rewards |-> <<>>]
                     /\ UNCHANGED <<pge_pc, pge_episode, pge_model, pge_rewards>>

\* the for loop is exhausted
PGEFinish ==
    /\ UNCHANGED notPgeVars
    /\ pge_pc = "episode"
    /\ pge_episode > pge_num_episodes
    /\ pge_pc' = "finished"
    /\ pge_last' = NoPGStep
    /\ UNCHANGED <<pge_episode, pge_state, pge_model, memory_states, memory_actions,
                   memory_rewards, pge_rewards, pge_history>>

PGENext == PGEEpisodeStart \/ PGEStep \/ PGEFinish

\* one specification per agent: the agent under study starts as constructed (or
\* on drawn inputs), the others stay idle
InitDQN == DQNInit /\ SelIdle /\ TabIdle /\ PGIdle /\ ACIdle /\ TDIdle /\ TrainIdle /\ CfgIdle /\ PGEIdle
InitSelect == SelInit /\ DQNIdle /\ TabIdle /\ PGIdle /\ ACIdle /\ TDIdle /\ TrainIdle /\ CfgIdle /\ PGEIdle
InitTab == TabInit /\ DQNIdle /\ SelIdle /\ PGIdle /\ ACIdle /\ TDIdle /\ TrainIdle /\ CfgIdle /\ PGEIdle
InitPG == PGInit /\ DQNIdle /\ SelIdle /\ TabIdle /\ ACIdle /\ TDIdle /\ TrainIdle /\ CfgIdle /\ PGEIdle
InitAC == ACInit /\ DQNIdle /\ SelIdle /\ TabIdle /\ PGIdle /\ TDIdle /\ TrainIdle /\ CfgIdle /\ PGEIdle
InitTD == TDInit /\ DQNIdle /\ SelIdle /\ TabIdle /\ PGIdle /\ ACIdle /\ TrainIdle /\ CfgIdle /\ PGEIdle
InitTrain == TrainInit /\ DQNIdle /\ SelIdle /\ TabIdle /\ PGIdle /\ ACIdle /\ TDIdle /\ CfgIdle /\ PGEIdle
InitConfig == CfgInit /\ DQNIdle /\ SelIdle /\ TabIdle /\ PGIdle /\ ACIdle /\ TDIdle /\ TrainIdle /\ PGEIdle
InitPGE == PGEInit /\ DQNIdle /\ SelIdle /\ TabIdle /\ PGIdle /\ ACIdle /\ TDIdle /\ TrainIdle /\ CfgIdle
\* one of the five trainers is constructed and runs
InitTrainers == InitDQN \/ InitAC \/ InitTD \/ InitPGE

SpecDQN == InitDQN /\ [][DQNNext]_vars
SpecSelect == InitSelect /\ [][SelNext]_vars
SpecTab == InitTab /\ [][TabNext]_vars
SpecPG == InitPG /\ [][PGNext]_vars
SpecAC == InitAC /\ [][ACNext]_vars
SpecTD == InitTD /\ [][TDNext]_vars
SpecTrain == InitTrain /\ [][TrainNext]_vars
SpecConfig == InitConfig /\ [][CfgNext]_vars
TrainersNext == DQNNext \/ ACNext \/ TDNext \/ PGENext
SpecTrainers == InitTrainers /\ [][TrainersNext]_vars
SpecPGE == InitPGE /\ [][PGENext]_vars

\* the head of the for loop of execute(): the next episode starts, or the loop
\* is exhausted and execute() returns
LoopHead ==
    /\ "episode" \in {dqn_pc, ac_pc, td_pc, pge_pc}
    /\ \/ DQNEpisodeStart \/ DQNFinish
       \/ ACEpisodeStart \/ ACFinish
       \/ SarsaEpisodeStart \/ QLEpisodeStart \/ TDFinish
       \/ PGEEpisodeStart \/ PGEFinish

\* the trainers with the for loop kept going: a trainer at the head of the
\* loop goes on.  Nothing is assumed about the while loops, whose end depends
\* on the done flag the environment returns.
LiveTrainers == InitTrainers /\ [][TrainersNext]_vars /\ WF_vars(LoopHead)

(***************************************************************************)
(* DQN: replay memory and target network                                   *)
(***************************************************************************)
\* the last n entries of s
LastN(s, n) == SubSeq(s, Len(s) - n + 1, Len(s))

\* C2: once maxlen + k transitions (k >= 0) have been inserted, the replay memory
\* holds exactly maxlen entries: the maxlen most recently inserted ones, in
\* insertion order.
C2_ReplayEviction ==
    Len(history) >= maxlen =>
        /\ Len(memory) = maxlen
        /\ memory = LastN(history, maxlen)

\* more than maxlen transitions were inserted and the oldest one is gone
C2_Witness ==
    /\ Len(history) >= maxlen + 2
    /\ Len(memory) = maxlen
    /\ memory[1] # history[1]

\* C3: in every reachable state of DQN training the replay memory holds at most
\* maxlen entries, and no step makes it shorter.
C3_ReplayBounded ==
    /\ [](Len(memory) <= maxlen)
    /\ [][Len(memory') >= Len(memory)]_vars

\* a step was taken on a full memory, in a second episode
C3_Witness ==
    /\ Len(history) > maxlen
    /\ Len(memory) = maxlen
    /\ Len(dqn_rewards) >= 2

\* C4 as stated: once exactly target_update_frequency gradient updates have been
\* applied since construction, the target parameters equal the online parameters.
C4_SyncByTrainingSteps ==
    train_steps = target_update_frequency => target_model = model

\* C4 amended: counting one step per train() call, whether or not it applied a
\* gradient update (one per environment step), after exactly
\* target_update_frequency steps from construction or from the previous sync the
\* target parameters equal the online parameters at that instant.
C4_SyncByTrainCalls ==
    (Len(history) > 0 /\ Len(history) % target_update_frequency = 0) =>
        target_model = model

\* the second sync: a step that trained, then copied the new online parameters,
\* while fewer gradient updates than train() calls have happened
C4_Witness ==
    /\ Len(history) = 2 * target_update_frequency
    /\ dqn_last.kind = "train"
    /\ dqn_last.trained
    /\ dqn_last.synced
    /\ train_steps < Len(history)
    /\ target_model = model

\* C5: the target network is a snapshot: equal to the online parameters at
\* construction, always equal to the online parameters as they were at the last
\* sync, and changed only by a sync, which copies the online parameters.
C5_TargetIsSnapshot ==
    /\ target_model = model
    /\ [](target_model = last_sync)
    /\ [][target_model' # target_model =>
            (dqn_last'.kind = "train" /\ dqn_last'.synced /\ target_model' = model')]_vars

\* after a sync, a gradient update moved the online parameters away from the target
C5_Witness ==
    /\ Len(history) > target_update_frequency
    /\ dqn_last.kind = "train"
    /\ dqn_last.trained
    /\ ~dqn_last.synced
    /\ model # target_model
    /\ target_model = last_sync

(***************************************************************************)
(* Tabular agents: discretizer, selection, targets                         *)
(***************************************************************************)
\* the (0-based) actions whose value estimate is maximal
MaxSet(q_values) ==
    { a \in 0 .. (Len(q_values) - 1) :
        \A b \in 0 .. (Len(q_values) - 1) : ~RatLt(q_values[a + 1], q_values[b + 1]) }

\* C1: for every observation with all components in [low_i, high_i], both bounds
\* included, every component i of get_discrete_state lies in [0, num_grids_i).
C1_DiscreteStateInRange ==
    tab_discrete # <<>> =>
        \A i \in DOMAIN num_grids :
            /\ ~RatLt(tab_obs[i], observation_low[i])
            /\ ~RatLt(observation_high[i], tab_obs[i])
            /\ 0 <= tab_discrete[i]
            /\ tab_discrete[i] < num_grids[i]

\* C8 as stated: for the same Q-table row and transition, the SARSA target
\* differs from the Q-learning target exactly when the next action SARSA selected
\* is not a greedy (maximizing) action of next_state.
C8_TargetsDifferIffNotGreedy ==
    tab_out.kind = "targets" =>
        ((tab_out.sarsa # tab_out.qlearning) <=>
            (tab_out.new_action \notin MaxSet(tab_q_row)))

\* C8 amended: the targets differ exactly when the transition is not terminal and
\* the next action SARSA selected is not a maximizing action of next_state; in
\* every other case, and whenever done is true, they are equal.
C8_TargetsDifferIffNotGreedyNotDone ==
    tab_out.kind = "targets" =>
        ((tab_out.sarsa # tab_out.qlearning) <=>
            (~tab_done /\ tab_out.new_action \notin MaxSet(tab_q_row)))

\* a non-terminal transition on which exploration picked a non-maximizing action
\* of a row with two maximizing ones, and the targets differ
C8_Witness ==
    /\ tab_out.kind = "targets"
    /\ ~tab_done
    /\ tab_out.explored
    /\ Cardinality(MaxSet(tab_q_row)) = 2
    /\ tab_out.new_action \notin MaxSet(tab_q_row)
    /\ RatLt(tab_out.sarsa, tab_out.qlearning)

\* C9: with epsilon = 0 the exploration branch is never taken and the action
\* returned (tabular epsilon_greedy_selection and DQN select_action) is one of
\* the actions whose value estimate is maximal.
C9_GreedyAtEpsilonZero ==
    (sel_out.kind \in {"tabular", "dqn"} /\ sel_eps = Rat(0, 1)) =>
        /\ ~sel_out.explored
        /\ sel_out.action \in MaxSet(sel_q)

\* epsilon = 0 and the draw 0.0: the selection stayed on the greedy branch
C9_Witness ==
    /\ sel_eps = Rat(0, 1)
    /\ sel_out.kind = "tabular"
    /\ sel_out.u = Rat(0, 1)
    /\ Cardinality(MaxSet(sel_q)) < Len(sel_q)
    /\ sel_out.action \in MaxSet(sel_q)

\* C10: on the greedy branch of the tabular selection the possible results are
\* exactly the maximizing indices: every one of them can be returned, and no
\* other index can.
C10_TieBreaking ==
    /\ \A u \in RandomDraws :
          ~RatLt(u, sel_eps) => epsilon_greedy_selection(sel_q, sel_eps, u) = MaxSet(sel_q)
    /\ (sel_out.kind = "tabular" /\ ~sel_out.explored) =>
          sel_out.action \in MaxSet(sel_q)

\* the greedy branch returned the last of several maximizing indices
C10_Witness ==
    /\ sel_out.kind = "tabular"
    /\ ~sel_out.explored
    /\ Cardinality(MaxSet(sel_q)) >= 2
    /\ Cardinality(MaxSet(sel_q)) < Len(sel_q)
    /\ \A a \in MaxSet(sel_q) : a <= sel_out.action

(***************************************************************************)
(* REINFORCE returns and the Actor-Critic decay factor                     *)
(***************************************************************************)
\* C6: the returns satisfy G_T = r_T and G_t = r_t + gamma * G_{t+1} for t < T;
\* in particular rewards [1, 1, 1] with gamma = 0.5 give [1.75, 1.5, 1].
C6_ReturnsRecursion ==
    pg_returns # NoReturns =>
        LET G == pg_returns.values
            T == Len(pg_rewards)
        IN  /\ Len(G) = T
            /\ \A t \in 1 .. T :
                  G[t] = IF t = T
                         THEN pg_rewards[t].v
                         ELSE RatAdd(pg_rewards[t].v, RatMul(pg_gamma, G[t + 1]))
            /\ (/\ T = 3
                /\ \A t \in 1 .. T : pg_rewards[t].v = RatOfInt(1)
                /\ pg_gamma = Rat(1, 2))
               => G = <<Rat(7, 4), Rat(3, 2), RatOfInt(1)>>

\* C7: I is 1 when an episode starts and gamma^k after k non-terminal transitions
\* of the episode; the terminal transition does not multiply it, and nothing of
\* the previous episode's value is left at the next start.
C7_DecayFactor ==
    /\ ac_I = RatPow(ac_gamma, ac_k)
    /\ ac_last.kind = "start" => (ac_k = 0 /\ ac_I = RatOfInt(1))

\* a later episode ends with a terminal transition after a non-terminal one
C7_Witness ==
    /\ Len(ac_rewards) >= 2
    /\ ac_last.kind = "step"
    /\ ac_last.done
    /\ ac_k >= 1
    /\ ac_I = ac_last.I_used

(***************************************************************************)
(* SARSA and Q-learning: the update rule and the episode loop              *)
(***************************************************************************)
\* training episodes that have run to their terminal step
TDEpisodesFinished == IF td_pc = "step" THEN Len(td_rewards) - 1 ELSE Len(td_rewards)

\* C13 as stated: Q-learning on the toy MDP from a zero table, for any alpha in
\* (0, 1] and gamma in [0, 1]: once the first episode has finished, Q[0][0] is
\* strictly greater than Q[0][1], and stays so after every further update.
C13_ToyPrefersTerminatingAction ==
    (td_agent = "qlearning" /\ td_env = "toy" /\ TDEpisodesFinished >= 1)
        => RatLt(q_table[<<0>>][2], q_table[<<0>>][1])

\* C13 amended: the same, unless alpha and gamma are both 1 (then one update of
\* Q[0][1] sets it to max(Q[0]) = Q[0][0]).
C13_ToyPrefersTerminatingActionBelowOne ==
    (/\ td_agent = "qlearning"
     /\ td_env = "toy"
     /\ TDEpisodesFinished >= 1
     /\ (RatLt(td_alpha, RatOfInt(1)) \/ RatLt(td_gamma, RatOfInt(1))))
        => RatLt(q_table[<<0>>][2], q_table[<<0>>][1])

\* the second episode has finished and the looping action has been updated
\* from a positive Q[0][0]
C13_Witness ==
    /\ td_agent = "qlearning"
    /\ td_env = "toy"
    /\ RatLt(td_alpha, RatOfInt(1))
    /\ TDEpisodesFinished >= 2
    /\ RatLt(RatOfInt(0), q_table[<<0>>][2])
    /\ RatLt(q_table[<<0>>][2], q_table[<<0>>][1])

\* C17: a SARSA training step sets Q[state][action] to
\* q_old + alpha * (target - q_old), target = reward if done, else
\* reward + gamma * Q[next_state][next_action], all read before the write, and
\* changes no other entry of the table.
C17_SarsaUpdate ==
    [][(td_agent = "sarsa" /\ td_history' # td_history) =>
         LET l      == td_last'
             target == IF l.done
                       THEN RatOfInt(l.reward)
                       ELSE RatAdd(RatOfInt(l.reward),
                                   RatMul(td_gamma, q_table[l.new_state][l.new_action + 1]))
             q_old  == q_table[td_state][td_action + 1]
         IN  /\ l.state = td_state
             /\ l.action = td_action
             /\ q_table' = [q_table EXCEPT ![td_state][td_action + 1] =
                               RatAdd(q_old, RatMul(td_alpha, RatSub(target, q_old)))]]_vars

\* a non-terminal SARSA step has bootstrapped from a non-zero entry
C17_Witness ==
    /\ td_agent = "sarsa"
    /\ td_last.kind = "step"
    /\ ~td_last.done
    /\ td_last.reward = 0
    /\ q_table[td_last.new_state][td_last.new_action + 1] # RatOfInt(0)
    /\ q_table[td_last.state][td_last.action + 1] # RatOfInt(0)

\* C18: a Q-learning training step sets Q[state][action] to
\* q_old + alpha * (target - q_old), target = reward if done, else
\* reward + gamma * max_a Q[next_state][a]; the target is a function of the
\* table, the reward, done and next_state alone, and no other entry changes.
C18_QLearningUpdate ==
    [][(td_agent = "qlearning" /\ td_history' # td_history) =>
         LET l      == td_last'
             best   == q_table[l.new_state][(CHOOSE a \in MaxSet(q_table[l.new_state]) : TRUE) + 1]
             target == IF l.done
                       THEN RatOfInt(l.reward)
                       ELSE RatAdd(RatOfInt(l.reward), RatMul(td_gamma, best))
             q_old  == q_table[td_state][l.action + 1]
         IN  /\ l.state = td_state
             /\ q_table' = [q_table EXCEPT ![td_state][l.action + 1] =
                               RatAdd(q_old, RatMul(td_alpha, RatSub(target, q_old)))]]_vars

\* a non-terminal Q-learning step has bootstrapped from a row whose entries differ
C18_Witness ==
    /\ td_agent = "qlearning"
    /\ td_last.kind = "step"
    /\ ~td_last.done
    /\ td_last.reward = 0
    /\ q_table[td_last.new_state][1] # q_table[td_last.new_state][2]
    /\ q_table[td_last.state][td_last.action + 1] # RatOfInt(0)

\* C19: within a SARSA episode the action whose value entered the target at
\* step t is the action handed to env.step at step t+1, and the state indexed
\* at step t+1 is the next_state of step t; the first step of an episode uses
\* the reset state and the action selected on it.
C19_SarsaOnPolicy ==
    [][(td_agent = "sarsa" /\ td_history' # td_history) =>
         /\ (td_last.kind = "step" /\ ~td_last.done) =>
                /\ td_last'.action = td_last.new_action
                /\ td_last'.state = td_last.new_state
         /\ td_last.kind = "start" =>
                /\ td_last'.env_state = td_last.reset
                /\ td_last'.state = td_get_discrete_state(TDObs(td_last.reset))
                /\ td_last'.action = td_last.action]_vars

\* two consecutive SARSA steps of one episode, the first one moving to another state
C19_Witness ==
    /\ td_agent = "sarsa"
    /\ td_last.kind = "step"
    /\ Len(td_history) >= 2
    /\ ~td_history[Len(td_history) - 1].done
    /\ td_last.env_state # 0

(***************************************************************************)
(* Action selection of the five trainers                                   *)
(***************************************************************************)
\* C11: on the greedy branch of DQNAgent.select_action, when several actions
\* share the maximal predicted value, every maximizing index is a possible
\* result: the possible results are exactly the maximizing indices.
C11_DQNTieBreaking ==
    Len(sel_q) = dqn_action_size =>
        \A u \in RandomDraws :
            ~RatLt(u, sel_eps) => select_action(sel_q, sel_eps, u) = MaxSet(sel_q)

\* C12: every action a selector returns (tabular and DQN epsilon-greedy for any
\* epsilon in [0, 1], REINFORCE and Actor-Critic sampling for any probability
\* vector) is an integer index in [0, action_count), action_count being the
\* length of the value or probability vector.
C12_ActionInRange ==
    sel_out.kind # "none" => sel_out.action \in 0 .. (Len(sel_q) - 1)

\* the sampled policy returned the last action; an exploring DQN selection did too
C12_Witness ==
    \/ /\ sel_out.kind \in {"pg", "ac"}
       /\ sel_out.action = Len(sel_q) - 1
       /\ RatLt(RatOfInt(0), sel_q[1])
    \/ /\ sel_out.kind = "dqn"
       /\ sel_out.explored
       /\ sel_eps = Rat(1, 1)
       /\ sel_out.action = dqn_action_size - 1
       /\ sel_out.action \notin MaxSet(sel_q)

(***************************************************************************)
(* DQN: a training step                                                    *)
(***************************************************************************)
\* C14: an environment step of execute() whose train() call finds fewer than
\* batch_size transitions in the replay memory leaves the online and the target
\* parameters as they were, and the step completes: the target-update counter
\* is incremented, the reward is added to the episode's entry, and the loop
\* goes on (to the next step, or out of the episode when done).
C14_InsufficientData ==
    [][(history' # history /\ Len(memory') < batch_size) =>
         LET tr == history'[Len(history')]
             n  == Len(dqn_rewards)
         IN  /\ model' = model
             /\ target_model' = target_model
             /\ target_update_counter' =
                    (target_update_counter + 1) % target_update_frequency
             /\ Len(dqn_rewards') = n
             /\ dqn_rewards'[n] = dqn_rewards[n] + tr.reward
             /\ dqn_pc' \in {"step", "act", "episode"}
             /\ ~tr.done => (dqn_pc' = "step" /\ dqn_state' = tr.new_state)]_vars

\* a rewarded step was taken while the memory was still short of a minibatch
C14_Witness ==
    /\ dqn_last.kind = "train"
    /\ ~dqn_last.trained
    /\ Len(memory) >= 1
    /\ Len(memory) < batch_size
    /\ target_update_counter = 1
    /\ dqn_rewards[Len(dqn_rewards)] = 1
    /\ dqn_pc = "step"

\* C20: for each sampled transition the target vector equals the online
\* network's prediction for its state in every entry except the taken action's,
\* which is reward + gamma * max_a Q_target(next_state)[a] computed with the
\* target network, and exactly reward for a terminal transition; the error is
\* zero on every action not taken.
C20_TrainingTarget ==
    tr_out.kind = "trained" =>
        \A i \in DOMAIN tr_out.minibatch :
            LET tup     == tr_out.minibatch[i]
                online  == Predict(tr_model, tup.state)
                q_next  == Predict(tr_target_model, tup.new_state)
                best    == q_next[(CHOOSE a \in MaxSet(q_next) : TRUE) + 1]
                q_taken == IF tup.done
                           THEN RatOfInt(tup.reward)
                           ELSE RatAdd(RatOfInt(tup.reward), RatMul(dqn_gamma, best))
            IN  \A a \in DQNActions :
                    IF a = tup.action
                    THEN tr_out.target[i][a + 1] = q_taken
                    ELSE /\ tr_out.target[i][a + 1] = online[a + 1]
                         /\ tr_out.err[i][a + 1] = RatOfInt(0)

\* a minibatch with a terminal and a non-terminal transition, the two networks
\* disagreeing on the value of the non-terminal one's next state
C20_Witness ==
    /\ tr_out.kind = "trained"
    /\ tr_model # tr_target_model
    /\ \E i, j \in DOMAIN tr_out.minibatch :
          /\ tr_out.minibatch[i].done
          /\ tr_out.minibatch[i].reward = 1
          /\ ~tr_out.minibatch[j].done
          /\ np_max(Predict(tr_model, tr_out.minibatch[j].new_state))
                # np_max(Predict(tr_target_model, tr_out.minibatch[j].new_state))
          /\ tr_out.err[j][tr_out.minibatch[j].action + 1] # RatOfInt(0)

(***************************************************************************)
(* Construction                                                            *)
(***************************************************************************)
\* C15: constructing a SarsaAgent or QLearningAgent with a zero grid-cell count
\* in num_grids ends in an error at construction; no agent is yielded.
C15_ZeroGridFailsFast ==
    (cfg_agent # NoAgent /\ \E i \in DOMAIN cfg_num_grids : cfg_num_grids[i] = 0)
        => cfg_agent.kind = "error"

(***************************************************************************)
(* Episode statistics                                                      *)
(***************************************************************************)
\* the reward sums of the episodes of h that have ended, in order; acc is the
\* sum of the episode being read
RECURSIVE EpisodeSums(_, _)
EpisodeSums(h, acc) ==
    IF h = <<>>
    THEN <<>>
    ELSE IF Head(h).done
         THEN <<acc + Head(h).reward>> \o EpisodeSums(Tail(h), 0)
         ELSE EpisodeSums(Tail(h), acc + Head(h).reward)

\* the reward sum of the steps of h after its last terminal step
RECURSIVE OpenSum(_, _)
OpenSum(h, acc) ==
    IF h = <<>>
    THEN acc
    ELSE IF Head(h).done
         THEN OpenSum(Tail(h), 0)
         ELSE OpenSum(Tail(h), acc + Head(h).reward)

\* rewards holds one entry per ended episode of the training steps h, equal to
\* the sum of that episode's rewards, followed, when the trainer opens the entry
\* at the start of an episode and an episode is running, by the running sum
StatsMatch(rewards, h, running) ==
    rewards = IF running
              THEN EpisodeSums(h, 0) \o <<OpenSum(h, 0)>>
              ELSE EpisodeSums(h, 0)

\* from rewards to next nothing is removed and the first finished entries are kept
StatsAppendOnly(rewards, next, finished) ==
    /\ Len(next) >= Len(rewards)
    /\ \A i \in 1 .. finished : next[i] = rewards[i]

\* C16: in every trainer stats['rewards'] only grows, the entries of finished
\* episodes never change, and the entry of a finished episode is the sum of
\* the rewards env.step returned during that episode's training steps;
\* evaluation rollouts (act) add nothing.
C16_EpisodeStats ==
    /\ [](/\ StatsMatch(dqn_rewards, history, dqn_pc = "step")
          /\ StatsMatch(ac_rewards, ac_history, ac_pc = "step")
          /\ StatsMatch(td_rewards, td_history, td_pc = "step")
          /\ StatsMatch(pge_rewards, pge_history, FALSE))
    /\ [][/\ StatsAppendOnly(dqn_rewards, dqn_rewards',
                              IF dqn_pc = "step" THEN Len(dqn_rewards) - 1
                                                 ELSE Len(dqn_rewards))
          /\ StatsAppendOnly(ac_rewards, ac_rewards',
                              IF ac_pc = "step" THEN Len(ac_rewards) - 1
                                                ELSE Len(ac_rewards))
          /\ StatsAppendOnly(td_rewards, td_rewards',
                              IF td_pc = "step" THEN Len(td_rewards) - 1
                                                ELSE Len(td_rewards))
          /\ StatsAppendOnly(pge_rewards, pge_rewards', Len(pge_rewards))]_vars

\* a tabular evaluation rollout collected a reward after an episode of two
\* rewarded training steps
C16_Witness ==
    /\ td_last.kind = "act"
    /\ td_last.reward = 1
    /\ Len(td_rewards) >= 1
    /\ td_rewards[1] = 2

(***************************************************************************)
(* DQN: schedule and ordering within an environment step                   *)
(***************************************************************************)
\* C21: the target-update counter counts the environment steps of training,
\* whether or not train() skipped, across episode boundaries; the target
\* network is synchronised and the counter reset to 0 exactly on the steps
\* whose global number is a positive multiple of target_update_frequency, so
\* 0 <= counter < target_update_frequency between steps.
C21_SyncSchedule ==
    /\ [](/\ target_update_counter = Len(history) % target_update_frequency
          /\ 0 <= target_update_counter
          /\ target_update_counter < target_update_frequency)
    /\ [][IF history' # history
          THEN IF Len(history') % target_update_frequency = 0
               THEN target_update_counter' = 0 /\ target_model' = model'
               ELSE /\ target_update_counter' = target_update_counter + 1
                    /\ target_model' = target_model
          ELSE /\ target_update_counter' = target_update_counter
               /\ target_model' = target_model]_vars

\* the sync of step target_update_frequency fell into a later episode than the
\* first, after a gradient update
C21_Witness ==
    /\ Len(history) = target_update_frequency
    /\ history[1].done
    /\ target_update_counter = 0
    /\ train_steps >= 1
    /\ target_model = model
    /\ Len(dqn_rewards) >= 2

\* C22: the replay memory never shrinks, and every environment step of training
\* at which it holds at least batch_size transitions performs exactly one
\* gradient update of the online network, on a minibatch of exactly batch_size
\* transitions stored at distinct positions of the memory; below batch_size
\* no update is performed.
C22_TrainsEveryStep ==
    [][history' # history =>
         /\ Len(memory') >= Len(memory)
         /\ Len(memory') < batch_size => train_steps' = train_steps
         /\ Len(memory') >= batch_size =>
               /\ train_steps' = train_steps + 1
               /\ dqn_last'.trained
               /\ \A tn \in train(memory', model, target_model) :
                     /\ tn.trained
                     /\ tn.target_model = target_model
                     /\ Len(tn.minibatch) = batch_size
                     /\ \E f \in [1 .. batch_size -> DOMAIN memory'] :
                           /\ \A i, j \in 1 .. batch_size : i # j => f[i] # f[j]
                           /\ \A i \in 1 .. batch_size : tn.minibatch[i] = memory'[f[i]]]_vars

\* gradient updates on consecutive steps of two episodes, from the first step
\* with enough data on
C22_Witness ==
    /\ dqn_last.kind = "train"
    /\ train_steps >= 2
    /\ Len(history) = train_steps + batch_size - 1
    /\ Len(dqn_rewards) >= 2
    /\ history[Len(history) - 1].done

C24_TDError ==
    [][ac_history' # ac_history =>
         LET l      == ac_last'
             target == IF l.done
                       THEN RatOfInt(l.reward)
                       ELSE RatAdd(RatOfInt(l.reward),
                                   RatMul(ac_gamma, Value(critic_model, l.new_state)))
         IN  /\ l.state = ac_state
             /\ l.new_value = target
             /\ l.value = Value(critic_model, ac_state)
             /\ l.delta = RatSub(target, Value(critic_model, ac_state))]_vars

\* a non-terminal step with a non-zero bootstrap term, after which the critic
\* values the step's state differently
C24_Witness ==
    /\ ac_last.kind = "step"
    /\ ~ac_last.done
    /\ ac_steps >= 2
    /\ ac_last.new_value # RatOfInt(ac_last.reward)
    /\ ac_last.delta # RatOfInt(0)
    /\ ac_last.value # Value(critic_model, ac_last.state)

\* C25: every environment step, the terminal one included, performs exactly
\* one critic update followed by exactly one actor update, and nothing else
\* updates a network; the actor update uses the delta computed from the
\* critic's parameters before the critic update, weighted by I as it is before
\* this step's multiplication by gamma: gamma^t at step t of the episode.
C25_FullyOnline ==
    /\ [](Len(ac_updates) = 2 * ac_steps)
    /\ [][IF ac_history' # ac_history
          THEN LET l == ac_last'
               IN  /\ ac_updates' = ac_updates \o <<"critic", "actor">>
                   /\ ac_steps' = ac_steps + 1
                   /\ l.delta = RatSub(l.new_value, Value(critic_model, ac_state))
                   /\ ac_I = RatPow(ac_gamma, ac_k)
                   /\ l.actor_weight = RatMul(l.delta, RatPow(ac_gamma, ac_k))
          ELSE /\ ac_updates' = ac_updates
               /\ actor_model' = actor_model
               /\ critic_model' = critic_model]_vars

\* the terminal step of an episode of at least two steps, with a non-zero delta
C25_Witness ==
    /\ ac_last.kind = "step"
    /\ ac_last.done
    /\ ac_last.I_used # RatOfInt(1)
    /\ ac_last.delta # RatOfInt(0)
    /\ ac_last.actor_weight = RatMul(ac_last.delta, ac_last.I_used)
    /\ Len(ac_updates) >= 4

(***************************************************************************)
(* REINFORCE: one update per episode, on that episode's records            *)
(***************************************************************************)
\* the records of the episode the last entry of h belongs to
LastEpisode(h) ==
    LET starts == {i \in 1 .. Len(h) : i = 1 \/ h[i - 1].done}
        b      == CHOOSE i \in starts : \A j \in starts : j <= i
    IN  SubSeq(h, b, Len(h))

\* C23: the parameters do not change while a trajectory is generated; train()
\* is called exactly once per episode, after the terminal step, and then the
\* three memory lists have equal length and hold exactly that episode's
\* (state before the action, one-hot action, reward) records in step order;
\* afterwards the memory is empty, so no record of an earlier episode is reused.
C23_EpisodeProtocol ==
    /\ [](pge_pc \in {"episode", "finished"} =>
            memory_states = <<>> /\ memory_actions = <<>> /\ memory_rewards = <<>>)
    /\ [][IF pge_history' # pge_history
          THEN LET l  == pge_last'
                   ep == LastEpisode(pge_history')
               IN  IF l.done
                   THEN /\ l.trains = 1
                        /\ Len(l.states) = Len(ep)
                        /\ Len(l.actions) = Len(ep)
                        /\ Len(l.rewards) = Len(ep)
                        /\ \A i \in 1 .. Len(ep) :
                              /\ l.states[i] = ep[i].state
                              /\ l.actions[i] = one_hot(ep[i].action, pg_action_size)
                              /\ l.rewards[i] = ep[i].reward
                        /\ pge_episode' = pge_episode + 1
                        /\ memory_states' = <<>>
                        /\ memory_actions' = <<>>
                        /\ memory_rewards' = <<>>
                   ELSE /\ l.trains = 0
                        /\ pge_model' = pge_model
                        /\ pge_episode' = pge_episode
                        /\ Len(memory_states') = Len(ep)
          ELSE pge_model' = pge_model /\ pge_episode' = pge_episode]_vars

\* the update that ends a later episode of at least two steps, with the
\* memory emptied after it
C23_Witness ==
    /\ pge_last.kind = "step"
    /\ pge_last.done
    /\ Len(pge_rewards) >= 2
    /\ Len(pge_last.rewards) >= 2
    /\ Len(pge_last.rewards) < Len(pge_history)
    /\ memory_rewards = <<>>

(***************************************************************************)
(* SARSA selects before the write, Q-learning after it                     *)
(***************************************************************************)
\* C27: SARSA selects the action for step t+1 from the Q-table as it is
\* before the update of step t (when next_state = state the write has no
\* influence on the choice); Q-learning selects the action of a step from the
\* table as the previous step's update left it.
C27_SelectionOrder ==
    [][td_history' # td_history =>
         LET l == td_last'
         IN  IF td_agent = "sarsa"
             THEN /\ l.select_row = q_table[l.new_state]
                  /\ l.new_action \in
                       epsilon_greedy_selection(q_table[l.new_state], tab_epsilon, l.u)
                  /\ ~RatLt(l.u, tab_epsilon) => l.new_action \in MaxSet(q_table[l.new_state])
             ELSE /\ l.state = td_state
                  /\ l.select_row = q_table[td_state]
                  /\ l.action \in epsilon_greedy_selection(q_table[td_state], tab_epsilon, l.u)
                  /\ ~RatLt(l.u, tab_epsilon) => l.action \in MaxSet(q_table[td_state])
                  /\ (td_last.kind = "step" /\ ~td_last.done) =>
                        td_state = td_last.new_state]_vars

\* a SARSA step from a state to itself: the next action was chosen greedily
\* before the write and is no longer greedy on the table after it
C27_Witness ==
    /\ td_agent = "sarsa"
    /\ td_last.kind = "step"
    /\ td_last.new_state = td_last.state
    /\ ~RatLt(td_last.u, tab_epsilon)
    /\ td_last.new_action \in MaxSet(td_last.select_row)
    /\ td_last.new_action \notin MaxSet(q_table[td_last.new_state])

(***************************************************************************)
(* act() leaves the learning state alone                                   *)
(***************************************************************************)
\* C29: a pass of act() of SarsaAgent, QLearningAgent or DQNAgent changes
\* neither the Q-table, the replay memory, the target-update counter, the
\* online or target parameters, nor stats['rewards'], and its action is the
\* one selected with epsilon = 0: a maximiser of the current value estimates.
C29_ActReadOnly ==
    [][/\ dqn_pc = "act" =>
            /\ UNCHANGED <<memory, model, target_model, target_update_counter, dqn_rewards>>
            /\ dqn_last'.kind = "act"
            /\ dqn_last'.epsilon = Rat(0, 1)
            /\ ~dqn_last'.explored
            /\ dqn_last'.action = Argmax(Predict(model, dqn_state))
       /\ td_pc = "act" =>
            /\ UNCHANGED <<q_table, td_rewards>>
            /\ td_last'.kind = "act"
            /\ td_last'.state = td_get_discrete_state(TDObs(td_env_state))
            /\ td_last'.action \in MaxSet(q_table[td_last'.state])]_vars

\* a pass of act() of a tabular agent on a state whose learned values single
\* out one action, after an episode with a non-zero return
C29_Witness ==
    /\ td_last.kind = "act"
    /\ q_table # td_zeros
    /\ td_rewards # <<>>
    /\ td_rewards[Len(td_rewards)] # 0
    /\ MaxSet(q_table[td_last.state]) = {td_last.action}

(***************************************************************************)
(* Tabular agents: the Q-values stay within the discounted reward range    *)
(***************************************************************************)
\* C30: starting from the all-zero table, with 0 <= alpha <= 1, 0 <= gamma < 1
\* and every reward in [r_min, r_max], r_min <= 0 <= r_max, every entry of the
\* Q-table of SarsaAgent and QLearningAgent stays within
\* [r_min / (1 - gamma), r_max / (1 - gamma)].
C30_BoundedQValues ==
    (td_agent \in {"sarsa", "qlearning"} /\ RatLt(td_gamma, RatOfInt(1))) =>
        LET lo == RatDiv(td_r_min(td_env), RatSub(RatOfInt(1), td_gamma))
            hi == RatDiv(td_r_max(td_env), RatSub(RatOfInt(1), td_gamma))
        IN  \A st \in DOMAIN q_table : \A a \in DOMAIN q_table[st] :
              /\ ~RatLt(q_table[st][a], lo)
              /\ ~RatLt(hi, q_table[st][a])

\* with gamma < 1, an entry below the least reward: the bootstrap term has
\* carried it beyond the range of a single reward
C30_Witness ==
    /\ td_agent \in {"sarsa", "qlearning"}
    /\ RatLt(RatOfInt(0), td_gamma)
    /\ RatLt(td_gamma, RatOfInt(1))
    /\ td_last.kind = "step"
    /\ \E st \in DOMAIN q_table : \E a \in DOMAIN q_table[st] :
          RatLt(q_table[st][a], td_r_min(td_env))

(***************************************************************************)
(* Termination of an episode and of execute()                              *)
(***************************************************************************)
\* the number of steps of h that returned done
DoneCount(h) == Cardinality({i \in DOMAIN h : h[i].done})

\* no trainer is inside a training episode or an evaluation rollout
AtRest ==
    /\ dqn_pc \notin {"step", "act"}
    /\ ac_pc \notin {"step", "act"}
    /\ td_pc \notin {"step", "act"}
    /\ pge_pc \notin {"step", "act"}

\* execute() has returned
Finished == "finished" \in {dqn_pc, ac_pc, td_pc, pge_pc}

\* a pass of a training loop whose step returned done leaves the loop
EpisodeEndsAtDone(h, h2, pc2) ==
    (h2 # h /\ h2[Len(h2)].done) => pc2 \in {"episode", "act"}

\* C26: in every trainer an episode ends at the first step that returns done
\* (no further step of that episode is taken), and if every episode and every
\* evaluation rollout eventually returns done (the trainer is at rest again and
\* again), execute() runs exactly num_episodes training episodes and returns.
C26_Termination ==
    /\ [](/\ dqn_pc = "finished" =>
               (DoneCount(history) = dqn_num_episodes /\ Len(dqn_rewards) = dqn_num_episodes)
          /\ ac_pc = "finished" =>
               (DoneCount(ac_history) = ac_num_episodes /\ Len(ac_rewards) = ac_num_episodes)
          /\ td_pc = "finished" =>
               (DoneCount(td_history) = td_num_episodes /\ Len(td_rewards) = td_num_episodes)
          /\ pge_pc = "finished" =>
               (DoneCount(pge_history) = pge_num_episodes
                  /\ Len(pge_rewards) = pge_num_episodes))
    /\ [][/\ EpisodeEndsAtDone(history, history', dqn_pc')
          /\ EpisodeEndsAtDone(ac_history, ac_history', ac_pc')
          /\ EpisodeEndsAtDone(td_history, td_history', td_pc')
          /\ EpisodeEndsAtDone(pge_history, pge_history', pge_pc')
          /\ (dqn_pc = "act" /\ dqn_pc' = "act") => DoneCount(history') = DoneCount(history)
          /\ ~Finished]_vars
    /\ ([]<>AtRest => <>Finished)

\* a tabular trainer has returned from execute() after at least one episode of
\* more than one step
C26_Witness ==
    /\ td_pc = "finished"
    /\ Len(td_history) > td_num_episodes
    /\ DoneCount(td_history) = td_num_episodes

====
